---- MODULE Spec2Model ----
(***************************************************************************)
(* A model of the selector-resolution and recovery pipeline of             *)
(* AI_WEB_CRAWLER:                                                         *)
(*   - ErrorRecoverySystem (src/src/error_recovery_system.py): Spec        *)
(*   - EnhancedWebScraper  (src/src/enhanced_main.py):         SpecSession *)
(*   - ask_local_ai_for_specific_selectors and its caller                  *)
(*     (src/src/main.py):                                      SpecResolver*)
(*   - the lookups of the static strategy table:               SpecTable   *)
(*   - SelectorCategorizer and local_ai_selector_categorizer               *)
(*     (selector_categorizer.py, utilities_local_ai.py):     SpecClassifier*)
(*   - run_pipeline (src/main.py) and run_ai_pipeline_navigator            *)
(*     (src/src/main.py):                                      SpecPipeline*)
(*   - DynamicNavigator.navigate_to_goal and ActionHandler.process_action  *)
(*     (dynamic_navigator.py, action_handler.py):             SpecNavigator*)
(*   - handle_specific_website_errors                                      *)
(*     (src/src/error_recovery_system.py):                    SpecWebsite  *)
(*   - extract_all_selectors (src/src/test_extract_selector.py):           *)
(*                                                             SpecExtract *)
(*   - the grouped pool of a stage of run_ai_pipeline_navigator            *)
(*     (src/src/main.py):                                      SpecPool    *)
(*   - smart_retry_with_backoff                                            *)
(*     (src/src/error_recovery_system.py):                    SpecRetry    *)
(*   - the review-extraction loop of run_ai_pipeline_navigator             *)
(*     (src/src/main.py):                                      SpecReviews *)
(* The browser page and the language model are the environment: every     *)
(* outcome they can produce is a nondeterministic choice.                  *)
(***************************************************************************)
EXTENDS Integers, Sequences, FiniteSets, TLC

VARIABLES
    \* ---- ErrorRecoverySystem ----
    recovery_stats,      \* total_errors, successful_recoveries, failed_recoveries
    recovery_methods,    \* strategy name -> attempts, successes, failures
    error_history_len,   \* len(self.error_history)
    he_pc,               \* position inside handle_error
    he_caller,           \* who awaits the handle_error result
    error_context,       \* the ErrorContext of the running call
    custom_strategies,   \* the custom_strategies argument
    generated,           \* generated + custom strategies, before the sort
    recovery_strategies, \* the list after the sort
    he_i,                \* index of the next strategy in recovery_strategies[:3]
    he_result,           \* the dict handle_error returned
    ai_calls,            \* model requests made by the running handle_error call
    ai_answer,           \* what the model call of the running call came back with
    executed,            \* strategies executed by the running call, in order
    steps_run,           \* strategy steps executed by the running call
    last_run,            \* the last _execute_recovery_strategy call
    calls,               \* handle_error calls made so far
    \* ---- EnhancedWebScraper ----
    s_pc,                \* position inside start_scraping_session
    session,             \* the ScrapingSession: credentials given, number of goals
    session_result,      \* the session_result dict
    browser,             \* "none" | "open" | "closed"
    is_authenticated,
    errors_encountered,  \* len(self.errors_encountered)
    goal_idx,            \* index of the goal being executed
    attempt,             \* attempt of _execute_goal_with_recovery
    nav,                 \* the _safe_navigate call: its goto and what it returned
    auth_depth,          \* nested _handle_authentication calls
    \* ---- Intent Resolver ----
    r_pc,                \* position inside the resolver / its caller
    pool,                \* category_selectors: its length, and the batches that
                         \* hold no entry with a 'selector'
    batch,               \* index of the batch being processed
    requests,            \* per batch: model requests issued
    responses,           \* per batch: the response received
    r_result,            \* what the resolver returned
    resolver_calls,      \* resolver calls made by the caller for this step
    step_outcome,        \* what the calling flow did with the result
    \* ---- Classifier ----
    c_pc,                \* position inside the classifier
    c_call,              \* the call: which classifier, candidates, concurrency limit
    c_batch,             \* batch index of the sequential loop
    b_state,             \* per batch: "waiting" | "in_flight" | "done"
    b_resp,              \* per batch: the response received
    completed,           \* the batches in the order their requests completed
    final_result,        \* final_result
    successful_batches,  \* successful_batches
    c_result,            \* what the classifier returned
    grouped_by_category, \* grouped_by_category of group_selectors_by_category
    \* ---- Pipeline runs ----
    pl_pc,               \* position inside the pipeline function
    pl_run,              \* which pipeline function runs
    pl_step,             \* the step of the pipeline the run is at
    pl_browser,          \* "none" | "open" | "closed" (browser.close() was awaited)
    pl_playwright,       \* "none" | "started" | "stopped" (async with async_playwright())
    pl_exit,             \* how the run left the function
    pl_close_calls,      \* how many times browser.close() was awaited
    \* ---- Caller-facing operations ----
    n_pc,                \* position inside navigate_to_goal / process_action
    nav_goal,            \* the NavigationGoal of the call
    steps_taken,         \* steps_taken
    navigation_history,  \* len(self.navigation_history)
    failed_attempts,     \* self.failed_attempts
    next_action,         \* next_action
    n_result,            \* what the operation handed to its caller
    nav_calls,           \* navigate_to_goal calls made on the DynamicNavigator
    ah_page,             \* ActionHandler.page: "none" | "open"
    ah_current_url,      \* ActionHandler.current_url: "none" | the url navigated to
    ah_calls,            \* the calls made on the ActionHandler, with their results
    \* ---- handle_specific_website_errors ----
    w_pc,                \* position inside handle_specific_website_errors
    w_calls,             \* handle_specific_website_errors calls made so far
    site_executed,       \* the website-specific strategies executed, with their results
    w_result,            \* what handle_specific_website_errors returned
    \* ---- Candidate extraction ----
    html_content,        \* the parsed page: soup.find_all(), in document order
    extractions,         \* what the extract_all_selectors calls returned, in call order
    \* ---- Grouped pool of a stage ----
    po_pc,               \* position of the stage's pool step
    po_stage,            \* the stage of run_ai_pipeline_navigator
    po_files,            \* the stage's files that exist when the step starts
    po_source,           \* where the stage's grouped pool came from
    po_written,          \* the stage's files the step wrote
    \* ---- smart_retry_with_backoff ----
    sr_pc,               \* position inside smart_retry_with_backoff
    sr_max_retries,      \* the max_retries argument
    sr_retry_count,      \* retry_count
    sr_calls,            \* what the action_func calls came back with, in call order
    sr_delays,           \* the backoff delays slept, without their jitter
    sr_result,           \* the dict smart_retry_with_backoff returned
    \* ---- the review-extraction loop of run_ai_pipeline_navigator ----
    rv_pc,               \* position inside the loop
    page_number,         \* page_number
    all_reviews,         \* all_reviews: the 'page' of every review collected
    rv_pages,            \* the page numbers whose iteration was entered, in order
    rv_next,             \* how the last search for the next page ended
    rv_exit              \* how the loop was left

rvars == <<recovery_stats, recovery_methods, error_history_len, he_pc, he_caller,
           error_context, custom_strategies, generated, recovery_strategies, he_i,
           he_result, ai_calls, ai_answer, executed, steps_run, last_run, calls>>
svars == <<s_pc, session, session_result, browser, is_authenticated,
           errors_encountered, goal_idx, attempt, nav, auth_depth>>
qvars == <<r_pc, pool, batch, requests, responses, r_result,
           resolver_calls, step_outcome>>
cvars == <<c_pc, c_call, c_batch, b_state, b_resp, completed, final_result,
           successful_batches, c_result, grouped_by_category>>
pvars == <<pl_pc, pl_run, pl_step, pl_browser, pl_playwright, pl_exit, pl_close_calls>>
nvars == <<n_pc, nav_goal, steps_taken, navigation_history, failed_attempts, next_action,
           n_result, nav_calls, ah_page, ah_current_url, ah_calls>>
wvars == <<w_pc, w_calls, site_executed, w_result>>
xvars == <<html_content, extractions>>
fvars == <<po_pc, po_stage, po_files, po_source, po_written>>
yvars == <<sr_pc, sr_max_retries, sr_retry_count, sr_calls, sr_delays, sr_result>>
zvars == <<rv_pc, page_number, all_reviews, rv_pages, rv_next, rv_exit>>
vars == <<rvars, svars, qvars, cvars, pvars, nvars, wvars, xvars, fvars, yvars, zvars>>

Min(a, b) == IF a < b THEN a ELSE b

RECURSIVE Pow2(_)
Pow2(n) == IF n = 0 THEN 1 ELSE 2 * Pow2(n - 1)

\* The statistics counters are followed up to MaxCount and held there: they
\* only ever grow, and no branch of the program reads them
MaxCount == 1
Counted(n) == Min(n, MaxCount)

(***************************************************************************)
(* ErrorContext and RecoveryStrategy                                       *)
(***************************************************************************)
None == "None"

\* ErrorContext.max_retries default
DefaultMaxRetries == 3

\* recovery_strategies[:3]
TopStrategies == 3

ErrorType == {"timeout", "selector_not_found", "element_not_clickable",
              "navigation_failed", "rate_limited", "authentication_failed",
              "network_error", "unknown"}

ErrorContext(type, target, retry) ==
    [error_type |-> type, target_selector |-> target,
     retry_count |-> retry, max_retries |-> DefaultMaxRetries]

Step(action, target, timeout) == [action |-> action, target |-> target, timeout |-> timeout]

RecoveryStrategy(name, steps, prob) ==
    [strategy_name |-> name, steps |-> steps, success_probability |-> prob]

\* A backoff without its cap
Backoff_Uncapped(n) == Pow2(n) * 5

\* min(60, 2 ** error_context.retry_count * 5)
Backoff(n) == Min(60, Pow2(n) * 5)

\* _get_default_recovery_strategies: the static table keyed by error type
get_default_recovery_strategies(ctx) ==
    LET t == ctx.target_selector IN
    CASE ctx.error_type = "timeout" ->
           << RecoveryStrategy("increase_timeout_and_retry",
                << Step("wait", "page", 10), Step("retry_original", t, 0) >>, 70) >>
      [] ctx.error_type = "selector_not_found" ->
           << RecoveryStrategy("wait_and_retry_selector",
                << Step("wait", "page", 5), Step("find_alternative_selector", t, 0) >>, 60),
              RecoveryStrategy("page_reload_and_retry",
                << Step("reload", "page", 0), Step("wait", "page", 5),
                   Step("retry_original", t, 0) >>, 50) >>
      [] ctx.error_type = "element_not_clickable" ->
           << RecoveryStrategy("scroll_and_click",
                << Step("scroll_into_view", t, 0), Step("wait", "element", 2),
                   Step("click", t, 0) >>, 80),
              RecoveryStrategy("remove_overlays_and_click",
                << Step("remove_overlays", "page", 0), Step("click", t, 0) >>, 70) >>
      [] ctx.error_type = "rate_limited" ->
           << RecoveryStrategy("exponential_backoff",
                << Step("wait", "page", Backoff(ctx.retry_count)),
                   Step("retry_original", t, 0) >>, 60) >>
      [] ctx.error_type = "network_error" ->
           << RecoveryStrategy("network_retry",
                << Step("wait", "page", 10), Step("reload", "page", 0),
                   Step("wait_for_load", "page", 0) >>, 50) >>
      [] OTHER ->
           << RecoveryStrategy("generic_retry",
                << Step("wait", "page", 5), Step("retry_original", t, 0) >>, 30) >>

(***************************************************************************)
(* _execute_recovery_strategy                                              *)
(***************************************************************************)
\* "if target:" of the click / scroll / find_alternative_selector branches
HasTarget(st) == st.target # None

\* The steps whose page call is not wrapped in a try of its own
CanRaise(st) ==
    \/ st.action \in {"reload", "wait_for_load"}
    \/ st.action = "click" /\ HasTarget(st)

\* The step that asks _try_alternative_selectors
Probes(st) == st.action = "find_alternative_selector" /\ HasTarget(st)

\* What the page can answer to one step
StepOutcomes(st) ==
    {"ok"} \cup (IF CanRaise(st) THEN {"raise"} ELSE {})
           \cup (IF Probes(st) THEN {"notfound"} ELSE {})

\* The page's answers to the steps of one strategy
StrategyOutcomes(steps) ==
    {o \in [1..Len(steps) -> {"ok", "raise", "notfound"}] :
        \A i \in 1..Len(steps) : o[i] \in StepOutcomes(steps[i])}

RunResult(success, method, error, ran) ==
    [success |-> success, method |-> method, error |-> error, ran |-> ran]

\* The "elif action == 'retry_original'" branch
RetryOriginalBranch(strategy, i) ==
    RunResult(TRUE, "retry_original", "", i)

\* The "if not alternative_found" branch
NoAlternativeBranch(strategy, i) ==
    RunResult(FALSE, "", "No alternative selector found", i)

\* An exception handler that swallows the exception and reports success
StepRaisedBranch_Swallowed(strategy, i) ==
    RunResult(TRUE, strategy.strategy_name, "", i)

\* The "except Exception" handler of _execute_recovery_strategy
StepRaisedBranch(strategy, i) ==
    RunResult(FALSE, "", "Strategy execution failed", i)

\* the for loop over strategy.steps, from step i on
RECURSIVE RunSteps(_, _, _)
RunSteps(strategy, o, i) ==
    IF i > Len(strategy.steps)
    THEN RunResult(TRUE, strategy.strategy_name, "", Len(strategy.steps))
    ELSE LET st == strategy.steps[i] IN
         IF CanRaise(st) /\ o[i] = "raise" THEN StepRaisedBranch(strategy, i)
         ELSE IF Probes(st) /\ o[i] = "notfound" THEN NoAlternativeBranch(strategy, i)
         ELSE IF st.action = "retry_original" THEN RetryOriginalBranch(strategy, i)
         ELSE RunSteps(strategy, o, i + 1)

execute_recovery_strategy(strategy, o) == RunSteps(strategy, o, 1)

NoPageCall == [method |-> "none", arg |-> None]

\* A retry_original branch that clicks the failed selector itself
PageCall_RetryClicks(st) ==
    IF st.action \in {"click", "retry_original"} /\ HasTarget(st)
    THEN [method |-> "click", arg |-> st.target]
    ELSE NoPageCall

\* The page method the branch of one step calls, and the selector it passes
PageCall(st) ==
    CASE st.action = "reload" -> [method |-> "reload", arg |-> None]
      [] st.action = "wait_for_load" -> [method |-> "wait_for_load_state", arg |-> None]
      [] st.action = "scroll_into_view" /\ HasTarget(st) ->
             [method |-> "evaluate", arg |-> st.target]
      [] st.action = "remove_overlays" -> [method |-> "evaluate", arg |-> None]
      [] st.action = "click" /\ HasTarget(st) -> [method |-> "click", arg |-> st.target]
      [] st.action = "find_alternative_selector" /\ HasTarget(st) ->
             [method |-> "query_selector", arg |-> st.target]
      [] OTHER -> NoPageCall

\* The page calls of the first n steps of a strategy
PageCalls(strategy, n) == [i \in 1..n |-> PageCall(strategy.steps[i])]

(***************************************************************************)
(* recovery_strategies.sort(key=success_probability, reverse=True)         *)
(***************************************************************************)
\* Insert s behind every element of probability >= its own: the sort is stable
RECURSIVE InsertDesc(_, _)
InsertDesc(s, sorted) ==
    IF sorted = << >> THEN << s >>
    ELSE IF Head(sorted).success_probability >= s.success_probability
         THEN << Head(sorted) >> \o InsertDesc(s, Tail(sorted))
         ELSE << s >> \o sorted

RECURSIVE SortDesc(_)
SortDesc(list) ==
    IF list = << >> THEN << >>
    ELSE InsertDesc(list[Len(list)], SortDesc(SubSeq(list, 1, Len(list) - 1)))

\* A sort call that was left out
sort_by_success_probability_Missing(list) == list

sort_by_success_probability(list) == SortDesc(list)

\* recovery_strategies[:3]
Top(list) == SubSeq(list, 1, Min(TopStrategies, Len(list)))

(***************************************************************************)
(* The language model's answers to the strategy prompt                     *)
(***************************************************************************)
\* The failed selector of the client calls
Target == "#target"

\* Strategies a model can answer with (names, steps and probabilities are its own)
AIStrategy(n) ==
    CASE n = 1 -> RecoveryStrategy("ai_reload_retry",
                    << Step("reload", "page", 0), Step("retry_original", None, 0) >>, 90)
      [] n = 2 -> RecoveryStrategy("ai_click_target",
                    << Step("click", Target, 0) >>, 50)
      [] n = 3 -> RecoveryStrategy("ai_find_alternative",
                    << Step("find_alternative_selector", Target, 0),
                       Step("wait", "page", 1) >>, 90)
      [] n = 4 -> RecoveryStrategy("ai_wait_captcha",
                    << Step("wait", "page", 5), Step("solve_captcha", None, 0) >>, 70)
      [] OTHER -> RecoveryStrategy("ai_scroll",
                    << Step("scroll_into_view", Target, 0) >>, 70)

\* A custom strategy a caller can pass
CustomStrategy ==
    RecoveryStrategy("custom_wait_for_load",
        << Step("remove_overlays", "page", 0), Step("wait_for_load", "page", 0) >>, 80)

\* The strategies the model of the client run chooses from
AIPool == {1, 2, 3}

\* Longest strategies list in a model answer
MaxAIStrategies == 3

\* Sequences over 1..n without repetition, of length at most k
RECURSIVE Arrangements(_, _)
Arrangements(S, k) ==
    IF k = 0 THEN { << >> }
    ELSE LET shorter == Arrangements(S, k - 1) IN
         shorter \cup { Append(a, x) : a \in { b \in shorter : Len(b) = k - 1 },
                                        x \in S } 

NoRepeat(a) == \A i, j \in 1..Len(a) : i # j => a[i] # a[j]

\* result.get("strategies", []) of a model answer that parsed
AIAnswers ==
    { [failed |-> FALSE, strategies |-> [i \in 1..Len(a) |-> AIStrategy(a[i])]] :
        a \in { b \in Arrangements(AIPool, MaxAIStrategies) : NoRepeat(b) } }

\* The model call raised (network, timeout, invalid JSON, answer not an object)
AIFailure == [failed |-> TRUE, strategies |-> << >>]

\* Before the model was asked
NoAnswer == [failed |-> FALSE, strategies |-> << >>]

StrategyNames ==
    { "increase_timeout_and_retry", "wait_and_retry_selector", "page_reload_and_retry",
      "scroll_and_click", "remove_overlays_and_click", "exponential_backoff",
      "network_retry", "generic_retry", "custom_wait_for_load",
      "amazon_captcha_handling", "amazon_rate_limit_handling" }
    \cup { AIStrategy(n).strategy_name : n \in 1..5 }

(***************************************************************************)
(* ErrorRecoverySystem.handle_error                                        *)
(***************************************************************************)
NoRun == [seen |-> FALSE, strategy |-> RecoveryStrategy(None, << >>, 0),
          outcomes |-> << >>, page_calls |-> << >>,
          result |-> RunResult(FALSE, "", "", 0)]
NoResult == [success |-> FALSE, error |-> None, retry_count |-> 0,
             recovery_method |-> None, strategies_attempted |-> << >>]

\* A ceiling check that lets retry_count = max_retries through
CeilingReached_OffByOne(ctx) == ctx.retry_count > ctx.max_retries

\* if error_context.retry_count >= error_context.max_retries
CeilingReached(ctx) == ctx.retry_count >= ctx.max_retries

\* _update_recovery_stats
update_recovery_stats(methods, method, success) ==
    [methods EXCEPT ![method] =
        [attempts  |-> Counted(@.attempts + 1),
         successes |-> IF success THEN Counted(@.successes + 1) ELSE @.successes,
         failures  |-> IF success THEN @.failures ELSE Counted(@.failures + 1)]]

\* handle_error up to the retry-ceiling check
HandleErrorEnter(ctx, custom, caller) ==
    /\ he_pc = "idle"
    /\ he_caller' = caller
    /\ error_context' = ctx
    /\ custom_strategies' = custom
    /\ error_history_len' = Counted(error_history_len + 1)
    /\ recovery_stats' = [recovery_stats EXCEPT !.total_errors = Counted(@ + 1)]
    /\ calls' = Counted(calls + 1)
    /\ ai_calls' = 0
    /\ ai_answer' = NoAnswer
    /\ executed' = << >>
    /\ steps_run' = 0
    /\ last_run' = NoRun
    /\ generated' = << >>
    /\ recovery_strategies' = << >>
    /\ he_i' = 1
    /\ IF CeilingReached(ctx)
       THEN /\ he_result' = [NoResult EXCEPT !.error = "Max retries exceeded",
                                             !.retry_count = ctx.retry_count]
            /\ he_pc' = "returned"
       ELSE /\ he_result' = NoResult
            /\ he_pc' = "generate"
    /\ UNCHANGED recovery_methods

\* A generator that answers a failed model call with no strategies
generate_recovery_strategies_NoFallback(answer, ctx) == answer.strategies

\* What _generate_recovery_strategies returns: the model's list, or on any
\* exception of the model call the static table
generate_recovery_strategies(answer, ctx) ==
    IF answer.failed THEN get_default_recovery_strategies(ctx) ELSE answer.strategies

\* generate, extend with the custom strategies, sort
GenerateRecoveryStrategies(answers) ==
    /\ he_pc = "generate"
    /\ \E answer \in answers \cup {AIFailure} :
         LET all == generate_recovery_strategies(answer, error_context)
                    \o custom_strategies IN
         /\ ai_answer' = answer
         /\ generated' = all
         /\ recovery_strategies' = sort_by_success_probability(all)
    /\ ai_calls' = ai_calls + 1
    /\ he_i' = 1
    /\ he_pc' = "execute"
    /\ UNCHANGED <<recovery_stats, recovery_methods, error_history_len, he_caller,
                   error_context, custom_strategies, he_result, executed, steps_run,
                   last_run, calls>>

\* A loop that gives up after the first strategy that failed
NextRanked_GiveUp(i) == TopStrategies + 1

\* The for loop moves on to the next strategy of recovery_strategies[:3]
NextRanked(i) == i + 1

\* One iteration of "for strategy in recovery_strategies[:3]"
ExecuteRecoveryStrategy ==
    /\ he_pc = "execute"
    /\ he_i <= Len(Top(recovery_strategies))
    /\ LET strategy == recovery_strategies[he_i] IN
       \E o \in StrategyOutcomes(strategy.steps) :
         LET r == execute_recovery_strategy(strategy, o) IN
         /\ executed' = Append(executed, strategy)
         /\ steps_run' = steps_run + r.ran
         /\ last_run' = [seen |-> TRUE, strategy |-> strategy,
                         outcomes |-> SubSeq(o, 1, r.ran),
                         page_calls |-> PageCalls(strategy, r.ran), result |-> r]
         /\ recovery_methods' =
                update_recovery_stats(recovery_methods, strategy.strategy_name, r.success)
         /\ IF r.success
            THEN /\ recovery_stats' =
                        [recovery_stats EXCEPT !.successful_recoveries = Counted(@ + 1)]
                 /\ he_result' = [NoResult EXCEPT
                                    !.success = TRUE,
                                    !.recovery_method = strategy.strategy_name,
                                    !.retry_count = error_context.retry_count + 1]
                 /\ he_pc' = "returned"
                 /\ he_i' = he_i
            ELSE /\ he_i' = NextRanked(he_i)
                 /\ UNCHANGED <<recovery_stats, he_result, he_pc>>
    /\ UNCHANGED <<error_history_len, he_caller, error_context, custom_strategies,
                   generated, recovery_strategies, ai_calls, ai_answer, calls>>

\* The code after the for loop
AllStrategiesFailed ==
    /\ he_pc = "execute"
    /\ he_i > Len(Top(recovery_strategies))
    /\ recovery_stats' = [recovery_stats EXCEPT !.failed_recoveries = Counted(@ + 1)]
    /\ he_result' = [NoResult EXCEPT
                        !.error = "All recovery strategies failed",
                        !.strategies_attempted =
                            [k \in 1..Len(Top(recovery_strategies)) |->
                                recovery_strategies[k].strategy_name],
                        !.retry_count = error_context.retry_count]
    /\ he_pc' = "returned"
    /\ UNCHANGED <<recovery_methods, error_history_len, he_caller, error_context,
                   custom_strategies, generated, recovery_strategies, he_i, ai_calls, ai_answer,
                   executed, steps_run, last_run, calls>>

(***************************************************************************)
(* Spec: a client of ErrorRecoverySystem calling handle_error              *)
(***************************************************************************)
\* handle_error calls per run
MaxCalls == 1

\* Largest retry_count a client passes
MaxRetryCount == 4

InitRecovery ==
    /\ recovery_stats = [total_errors |-> 0, successful_recoveries |-> 0,
                         failed_recoveries |-> 0]
    /\ recovery_methods = [n \in StrategyNames |->
                             [attempts |-> 0, successes |-> 0, failures |-> 0]]
    /\ error_history_len = 0
    /\ he_pc = "idle"
    /\ he_caller = None
    /\ error_context = ErrorContext("unknown", None, 0)
    /\ custom_strategies = << >>
    /\ generated = << >>
    /\ recovery_strategies = << >>
    /\ he_i = 1
    /\ he_result = NoResult
    /\ ai_calls = 0
    /\ ai_answer = NoAnswer
    /\ executed = << >>
    /\ steps_run = 0
    /\ last_run = NoRun
    /\ calls = 0

\* EnhancedWebScraper.__init__, before start_scraping_session
NoNavigation == [returned |-> FALSE, success |-> FALSE, recovered |-> FALSE,
                 goto_ok |-> FALSE, exhausted |-> FALSE]
NoSessionResult ==
    [success |-> FALSE, goals_completed |-> 0, goals_failed |-> 0, total_errors |-> 0,
     authentication_status |-> "not_attempted", error |-> FALSE]

InitSessionIdle ==
    /\ s_pc = "idle"
    /\ session = [credentials |-> FALSE, goals |-> 0]
    /\ session_result = NoSessionResult
    /\ browser = "none"
    /\ is_authenticated = FALSE
    /\ errors_encountered = 0
    /\ goal_idx = 0
    /\ attempt = 0
    /\ nav = NoNavigation
    /\ auth_depth = 0

\* The classifier before any call
NoClassifierResult == [returned |-> FALSE, value |-> << >>, fallback |-> FALSE]

InitClassifierIdle ==
    /\ c_pc = "idle"
    /\ c_call = [mode |-> "sequential", total |-> 0, limit |-> 1]
    /\ c_batch = 0
    /\ b_state = << >>
    /\ b_resp = << >>
    /\ completed = << >>
    /\ final_result = << >>
    /\ successful_batches = 0
    /\ c_result = NoClassifierResult
    /\ grouped_by_category = << >>

\* No pipeline run yet
InitPipelineIdle ==
    /\ pl_pc = "idle"
    /\ pl_run = "none"
    /\ pl_step = 0
    /\ pl_browser = "none"
    /\ pl_playwright = "none"
    /\ pl_exit = "none"
    /\ pl_close_calls = 0

NoGoal == [max_steps |-> 0, criterion |-> "none"]
NoOperationResult == [kind |-> "none", success |-> FALSE, error |-> "none"]

\* No caller-facing operation called yet
InitNavigatorIdle ==
    /\ n_pc = "idle"
    /\ nav_goal = NoGoal
    /\ steps_taken = 0
    /\ navigation_history = 0
    /\ failed_attempts = << >>
    /\ next_action = None
    /\ n_result = NoOperationResult
    /\ nav_calls = 0
    /\ ah_page = "none"
    /\ ah_current_url = "none"
    /\ ah_calls = << >>

NoWebsiteResult == [returned |-> FALSE, success |-> FALSE, method |-> None]

\* No handle_specific_website_errors call made yet
InitWebsiteIdle ==
    /\ w_pc = "idle"
    /\ w_calls = 0
    /\ site_executed = << >>
    /\ w_result = NoWebsiteResult

NoRetryResult == [returned |-> FALSE, success |-> FALSE, result |-> None,
                  retry_count |-> 0]

\* The review-extraction loop not reached
InitReviewsIdle ==
    /\ rv_pc = "idle"
    /\ page_number = 0
    /\ all_reviews = << >>
    /\ rv_pages = << >>
    /\ rv_next = "none"
    /\ rv_exit = "none"

\* smart_retry_with_backoff not called
InitRetryIdle ==
    /\ sr_pc = "idle"
    /\ sr_max_retries = 0
    /\ sr_retry_count = 0
    /\ sr_calls = << >>
    /\ sr_delays = << >>
    /\ sr_result = NoRetryResult

\* No stage of run_ai_pipeline_navigator at its pool step
InitPoolIdle ==
    /\ po_pc = "idle"
    /\ po_stage = None
    /\ po_files = {}
    /\ po_source = None
    /\ po_written = {}

\* No page fetched and no extraction run yet
InitExtractIdle ==
    /\ html_content = << >>
    /\ extractions = << >>

(***************************************************************************)
(* ask_local_ai_for_specific_selectors (the Intent Resolver)               *)
(***************************************************************************)
\* batch_size = 25
BatchSize == 25

\* range(0, total_selectors, batch_size): the number of batches
NumBatches(total) == (total + BatchSize - 1) \div BatchSize

\* batch_start and batch_end of batch b (b = 1, 2, ...)
BatchStart(b) == (b - 1) * BatchSize
BatchEnd(b, total) == Min(BatchStart(b) + BatchSize, total)

\* A JSON value: a string, null, or something that is neither (number, list)
Str(x) == [type |-> "str", s |-> x]
JsonNull == [type |-> "null", s |-> ""]
JsonNumber == [type |-> "number", s |-> "5"]

\* One batch's outcome: the request failed, or the content of the completion
Response(kind, fence, key, value) ==
    [kind |-> kind, fence |-> fence, key |-> key, value |-> value]
NoResponse == Response("no_request", "", "", JsonNull)

Selector == "#nav-link-accountList"

Responses ==
    { Response(k, "", "", JsonNull) :
        k \in {"network_error", "not_json", "json_list", "dict_empty", "dict_two"} }
    \cup { Response("dict_one", "", "sign_in_selector", v) :
            v \in { Str(Selector), Str("none"), Str("NONE"), Str("Null"), Str(""),
                    JsonNull, JsonNumber } }
    \cup { Response("dict_one", "", k, Str(Selector)) :
            k \in { "None", "", "login_selector" } }
    \cup { Response("dict_one", "fenced", "sign_in_selector", Str(Selector)) }

\* A comparison that forgets to fold the case
Lower_Identity(x) == x

\* str.lower() on the strings of the model
Lower(x) ==
    CASE x \in {"NONE", "None"} -> "none"
      [] x \in {"NULL", "Null"} -> "null"
      [] OTHER -> x

\* The completion text without its code fence: result[7:] when it starts
\* with the json fence marker, result[:-3] when it ends with the fence marker
StripFence(resp) ==
    IF resp.fence = "fenced" THEN [resp EXCEPT !.fence = ""] ELSE resp

\* json.loads(result): "error" for JSONDecodeError, else the shape of the value
JsonLoads(resp) ==
    IF resp.kind = "not_json" \/ resp.fence # "" THEN "error" ELSE resp.kind

\* Python truthiness of a JSON value
Truthy(v) == ~(v.type = "null" \/ (v.type = "str" /\ v.s = ""))

EmptyResult == [empty |-> TRUE, key |-> "", value |-> JsonNull]
Answer(resp) == [empty |-> FALSE, key |-> resp.key, value |-> resp.value]

\* A handler that catches the HTTP client's errors only
OuterExceptCatches_HttpOnly(exception) == exception = "HTTPError"

\* What "except Exception as e" of the batch catches: every exception
OuterExceptCatches(exception) == TRUE

\* The body of the try for one batch whose request was sent:
\* "return" (return ai_response), "continue" (go on), "raise" (uncaught)
ProcessResponse(resp) ==
    IF resp.kind = "network_error"
    THEN IF OuterExceptCatches("HTTPError") THEN "continue" ELSE "raise"
    ELSE LET text == StripFence(resp)
             loaded == JsonLoads(text) IN
         IF loaded = "error" THEN "continue"
         ELSE IF loaded = "dict_one"
         THEN IF resp.key # "" /\ Lower(resp.key) \notin {"none", "null"}
                 /\ Truthy(resp.value)
              THEN IF resp.value.type # "str"
                   THEN IF OuterExceptCatches("AttributeError")
                        THEN "continue" ELSE "raise"
                   ELSE IF Lower(resp.value.s) \notin {"none", "null"}
                        THEN "return" ELSE "continue"
              ELSE "continue"
         ELSE "continue"

\* A resolver that falls back to a guessed selector
ResolverExhausted_Guess ==
    [empty |-> FALSE, key |-> "sign_in_selector", value |-> Str(Selector)]

\* return {} after the loop
ResolverExhausted == EmptyResult

\* The pools of the run: lengths around the batch boundaries
MaxFullBatches == 2

PoolTotals == { k * BatchSize + d : k \in 0..MaxFullBatches, d \in {0, 1} }

Pools ==
    { [total |-> n, without_selector |-> w] :
        n \in PoolTotals, w \in SUBSET (1..(MaxFullBatches + 1)) }

InitResolverIdle ==
    /\ r_pc = "idle"
    /\ pool = [total |-> 0, without_selector |-> {}]
    /\ batch = 0
    /\ requests = << >>
    /\ responses = << >>
    /\ r_result = EmptyResult
    /\ resolver_calls = 0
    /\ step_outcome = None

\* run_ai_pipeline_navigator, step 4: filter the pool and ask the resolver
CallerAsksResolver ==
    /\ r_pc = "idle"
    /\ \E pl \in { q \in Pools : q.without_selector \subseteq 1..NumBatches(q.total) } :
         /\ pool' = pl
         /\ requests' = [b \in 1..NumBatches(pl.total) |-> 0]
         /\ responses' = [b \in 1..NumBatches(pl.total) |-> NoResponse]
         /\ IF pl.total = 0
            THEN /\ r_pc' = "handled"
                 /\ step_outcome' = "no_selectors"
                 /\ UNCHANGED <<batch, resolver_calls>>
            ELSE /\ r_pc' = "resolving"
                 /\ batch' = 1
                 /\ resolver_calls' = resolver_calls + 1
                 /\ UNCHANGED step_outcome
    /\ UNCHANGED r_result

\* A loop body that goes on after a valid answer
ReturnsAtOnce_Continue(flow) == FALSE

\* "return ai_response" leaves the loop at the first valid answer
ReturnsAtOnce(flow) == flow = "return"

\* One iteration of the batch loop
ProcessBatch ==
    /\ r_pc = "resolving"
    /\ batch <= NumBatches(pool.total)
    /\ IF batch \in pool.without_selector
       THEN \* "if not selectors_list: continue"
            /\ batch' = batch + 1
            /\ UNCHANGED <<r_pc, requests, responses, r_result>>
       ELSE \E resp \in Responses :
            /\ requests' = [requests EXCEPT ![batch] = @ + 1]
            /\ responses' = [responses EXCEPT ![batch] = resp]
            /\ LET flow == ProcessResponse(resp) IN
               CASE ReturnsAtOnce(flow) ->
                      /\ r_result' = Answer(resp)
                      /\ r_pc' = "resolved"
                      /\ UNCHANGED batch
                 [] flow = "raise" ->
                      /\ r_pc' = "raised"
                      /\ UNCHANGED <<batch, r_result>>
                 [] OTHER ->
                      /\ batch' = batch + 1
                      /\ UNCHANGED <<r_pc, r_result>>
    /\ UNCHANGED <<pool, resolver_calls, step_outcome>>

\* The loop ran out of batches
ResolverReturnsNone ==
    /\ r_pc = "resolving"
    /\ batch > NumBatches(pool.total)
    /\ r_result' = ResolverExhausted
    /\ r_pc' = "resolved"
    /\ UNCHANGED <<pool, batch, requests, responses, resolver_calls, step_outcome>>

\* ai_response.get('sign_in_selector'), as a truth value
WantedSelector(result) ==
    ~result.empty /\ result.key = "sign_in_selector" /\ Truthy(result.value)

\* "if not sign_in_selector: ... await browser.close(); return"
OnNoSelector == "resolution_failed"

\* run_ai_pipeline_navigator, after the resolver returned
CallerHandlesResult ==
    /\ r_pc = "resolved"
    /\ step_outcome' = IF WantedSelector(r_result) THEN "click" ELSE OnNoSelector
    /\ r_pc' = "handled"
    /\ UNCHANGED <<pool, batch, requests, responses, r_result, resolver_calls>>

InitResolver == InitRecovery /\ InitSessionIdle /\ InitResolverIdle /\ InitClassifierIdle
        /\ InitPipelineIdle /\ InitNavigatorIdle /\ InitWebsiteIdle /\ InitExtractIdle /\ InitPoolIdle /\ InitRetryIdle /\ InitReviewsIdle

NextResolver ==
    \/ CallerAsksResolver /\ UNCHANGED <<rvars, svars, cvars, pvars, nvars, wvars, xvars, fvars, yvars, zvars>>
    \/ ProcessBatch /\ UNCHANGED <<rvars, svars, cvars, pvars, nvars, wvars, xvars, fvars, yvars, zvars>>
    \/ ResolverReturnsNone /\ UNCHANGED <<rvars, svars, cvars, pvars, nvars, wvars, xvars, fvars, yvars, zvars>>
    \/ CallerHandlesResult /\ UNCHANGED <<rvars, svars, cvars, pvars, nvars, wvars, xvars, fvars, yvars, zvars>>

SpecResolver == InitResolver /\ [][NextResolver]_vars

Init == InitRecovery /\ InitSessionIdle /\ InitResolverIdle /\ InitClassifierIdle
        /\ InitPipelineIdle /\ InitNavigatorIdle /\ InitWebsiteIdle /\ InitExtractIdle /\ InitPoolIdle /\ InitRetryIdle /\ InitReviewsIdle

\* A client calls handle_error(page, error_context, custom_strategies)
CallHandleError ==
    /\ calls < MaxCalls
    /\ \E type \in ErrorType, target \in {None, Target}, retry \in 0..MaxRetryCount,
          custom \in { << >>, << CustomStrategy >> } :
         HandleErrorEnter(ErrorContext(type, target, retry), custom, "client")
    /\ UNCHANGED <<svars, qvars, cvars, pvars, nvars, wvars, xvars, fvars, yvars, zvars>>

\* The client receives the result
ClientReturn ==
    /\ he_pc = "returned"
    /\ he_caller = "client"
    /\ he_pc' = "idle"
    /\ UNCHANGED <<recovery_stats, recovery_methods, error_history_len, he_caller,
                   error_context, custom_strategies, generated, recovery_strategies,
                   he_i, he_result, ai_calls, ai_answer, executed, steps_run, last_run, calls>>
    /\ UNCHANGED <<svars, qvars, cvars, pvars, nvars, wvars, xvars, fvars, yvars, zvars>>

Next ==
    \/ CallHandleError
    \/ GenerateRecoveryStrategies(AIAnswers) /\ UNCHANGED <<svars, qvars, cvars, pvars, nvars, wvars, xvars, fvars, yvars, zvars>>
    \/ ExecuteRecoveryStrategy /\ UNCHANGED <<svars, qvars, cvars, pvars, nvars, wvars, xvars, fvars, yvars, zvars>>
    \/ AllStrategiesFailed /\ UNCHANGED <<svars, qvars, cvars, pvars, nvars, wvars, xvars, fvars, yvars, zvars>>
    \/ ClientReturn

Spec == Init /\ [][Next]_vars

(***************************************************************************)
(* SpecWebsite: a client of handle_specific_website_errors                 *)
(***************************************************************************)
\* The website_domain arguments of the client
WebsiteDomains == {"www.amazon.in", "WWW.AMAZON.COM", "example.com"}

\* website_domain.lower()
LowerDomain(website_domain) ==
    IF website_domain = "WWW.AMAZON.COM" THEN "www.amazon.com" ELSE website_domain

\* "for domain in website_specific_strategies.keys(): if domain in ...": the
\* only key is "amazon"
DomainKey(website_domain) ==
    IF LowerDomain(website_domain) \in {"www.amazon.in", "www.amazon.com"} THEN "amazon" ELSE None

\* website_specific_strategies[domain_key].get(error_type, [])
WebsiteSpecificStrategies(domain_key, error_type) ==
    CASE domain_key = "amazon" /\ error_type = "captcha_required" ->
           << RecoveryStrategy("amazon_captcha_handling",
                << Step("wait", "page", 10), Step("solve_captcha", ".cvf-widget", 0),
                   Step("retry_original", None, 0) >>, 60) >>
      [] domain_key = "amazon" /\ error_type = "rate_limited" ->
           << RecoveryStrategy("amazon_rate_limit_handling",
                << Step("wait", "page", 300), Step("reload", "page", 0),
                   Step("retry_original", None, 0) >>, 70) >>
      [] OTHER -> << >>

\* The error types of the client's contexts
WebsiteErrorTypes == ErrorType \cup {"captcha_required"}

\* The page's answers to the steps of each website-specific strategy
SpecificOutcomes(specific) ==
    { os \in [1..Len(specific) -> UNION { StrategyOutcomes(specific[k].steps) :
                                            k \in 1..Len(specific) }] :
        \A k \in 1..Len(specific) : os[k] \in StrategyOutcomes(specific[k].steps) }

\* The executions of "for strategy in specific_strategies", which ends at the
\* first successful one
SpecificRuns(specific, os, ctx) ==
    LET result(k) == execute_recovery_strategy(specific[k], os[k])
        Hits == { k \in 1..Len(specific) : result(k).success }
        last == IF Hits = {} THEN Len(specific)
                ELSE CHOOSE k \in Hits : \A j \in Hits : k <= j
    IN  [k \in 1..last |-> [strategy |-> specific[k], error_context |-> ctx,
                             result |-> result(k)]]

\* handle_specific_website_errors up to its return or to the retry-ceiling check of
\* the handle_error call it falls back to
HandleSpecificWebsiteErrors ==
    /\ w_pc = "idle"
    /\ w_calls < MaxCalls
    /\ \E website_domain \in WebsiteDomains, type \in WebsiteErrorTypes,
          target \in {None, Target}, retry \in 0..MaxRetryCount :
         LET ctx == ErrorContext(type, target, retry)
             specific == WebsiteSpecificStrategies(DomainKey(website_domain), type)
         IN  \E os \in SpecificOutcomes(specific) :
               LET runs == SpecificRuns(specific, os, ctx)
                   hit == runs # << >> /\ runs[Len(runs)].result.success
               IN  /\ site_executed' = site_executed \o runs
                   /\ w_calls' = w_calls + 1
                   /\ IF hit
                      THEN /\ w_result' = [returned |-> TRUE, success |-> TRUE,
                                           method |-> runs[Len(runs)].result.method]
                           /\ w_pc' = "returned"
                           /\ UNCHANGED rvars
                      ELSE /\ HandleErrorEnter(ctx, << >>, "website")
                           /\ w_pc' = "fallback"
                           /\ w_result' = NoWebsiteResult
    /\ UNCHANGED <<svars, qvars, cvars, pvars, nvars, xvars, fvars, yvars, zvars>>

\* "return await self.handle_error(page, error_context)"
WebsiteFallbackReturn ==
    /\ w_pc = "fallback"
    /\ he_pc = "returned"
    /\ he_caller = "website"
    /\ he_pc' = "idle"
    /\ w_pc' = "returned"
    /\ w_result' = [returned |-> TRUE, success |-> he_result.success,
                    method |-> he_result.recovery_method]
    /\ UNCHANGED <<recovery_stats, recovery_methods, error_history_len, he_caller,
                   error_context, custom_strategies, generated, recovery_strategies,
                   he_i, he_result, ai_calls, ai_answer, executed, steps_run, last_run, calls>>
    /\ UNCHANGED <<w_calls, site_executed>>
    /\ UNCHANGED <<svars, qvars, cvars, pvars, nvars, xvars, fvars, yvars, zvars>>

\* The client receives the result
WebsiteClientReturn ==
    /\ w_pc = "returned"
    /\ w_pc' = "idle"
    /\ UNCHANGED <<w_calls, site_executed, w_result>>
    /\ UNCHANGED <<rvars, svars, qvars, cvars, pvars, nvars, xvars, fvars, yvars, zvars>>

NextWebsite ==
    \/ HandleSpecificWebsiteErrors
    \/ GenerateRecoveryStrategies(AIAnswers) /\ UNCHANGED <<svars, qvars, cvars, pvars, nvars, wvars, xvars, fvars, yvars, zvars>>
    \/ ExecuteRecoveryStrategy /\ UNCHANGED <<svars, qvars, cvars, pvars, nvars, wvars, xvars, fvars, yvars, zvars>>
    \/ AllStrategiesFailed /\ UNCHANGED <<svars, qvars, cvars, pvars, nvars, wvars, xvars, fvars, yvars, zvars>>
    \/ WebsiteFallbackReturn
    \/ WebsiteClientReturn

SpecWebsite == Init /\ [][NextWebsite]_vars

(***************************************************************************)
(* SpecTable: _get_default_recovery_strategies called on its own           *)
(***************************************************************************)
\* Largest retry_count of a table lookup
MaxTableRetry == 6

\* One call of _get_default_recovery_strategies(error_context)
GetDefaultRecoveryStrategies ==
    /\ \E type \in ErrorType, target \in {None, Target}, retry \in 0..MaxTableRetry :
         /\ error_context' = ErrorContext(type, target, retry)
         /\ generated' = get_default_recovery_strategies(error_context')
    /\ UNCHANGED <<recovery_stats, recovery_methods, error_history_len, he_pc,
                   he_caller, custom_strategies, recovery_strategies, he_i, he_result,
                   ai_calls, ai_answer, executed, steps_run, last_run, calls>>
    /\ UNCHANGED <<svars, qvars, cvars, pvars, nvars, wvars, xvars, fvars, yvars, zvars>>

NextTable == GetDefaultRecoveryStrategies

SpecTable == Init /\ [][NextTable]_vars

(***************************************************************************)
(* SpecSession: EnhancedWebScraper.start_scraping_session                  *)
(***************************************************************************)
\* max_attempts = 3 of _execute_goal_with_recovery
MaxAttempts == 3

\* Longest session.goals list of the run
MaxGoals == 1

\* Nested _handle_authentication calls the interpreter allows before it
\* raises RecursionError
RecursionLimit == 1

\* The model's answers during a session: one strategy whose first step can raise
SessionAnswers == { [failed |-> FALSE, strategies |-> << AIStrategy(1) >>] }

\* The errors navigate_to_goal returns
GoalErrors == {"Navigation timeout", "No valid action found", "Recovery failed",
               "Max steps exceeded"}

\* The words _classify_goal_error looks for that error_message.lower() contains
KeywordsIn(message) ==
    CASE message = "Navigation timeout" -> {"navigation", "timeout"}
      [] message = "Timeout 15000ms exceeded" -> {"timeout"}
      [] OTHER -> {}

\* _classify_goal_error: the first keyword test that matches
classify_goal_error(message) ==
    LET k == KeywordsIn(message) IN
    IF "timeout" \in k THEN "timeout"
    ELSE IF "selector" \in k \/ "not found" \in k THEN "selector_not_found"
    ELSE IF "clickable" \in k THEN "element_not_clickable"
    ELSE IF "navigation" \in k THEN "navigation_failed"
    ELSE IF "captcha" \in k THEN "captcha_required"
    ELSE IF "rate" \in k \/ "limit" \in k THEN "rate_limited"
    ELSE IF "network" \in k THEN "network_error"
    ELSE "unknown"

\* The awaited handle_error call returns to its caller
HandleErrorReturns(caller) ==
    /\ he_pc = "returned"
    /\ he_caller = caller
    /\ he_pc' = "idle"
    /\ UNCHANGED <<recovery_stats, recovery_methods, error_history_len, he_caller,
                   error_context, custom_strategies, generated, recovery_strategies,
                   he_i, he_result, ai_calls, ai_answer, executed, steps_run, last_run, calls>>

\* start_scraping_session up to the first navigation: launch the browser
StartSession ==
    /\ s_pc = "idle"
    /\ \E credentials \in BOOLEAN, goals \in 1..MaxGoals, launched \in BOOLEAN :
         /\ session' = [credentials |-> credentials, goals |-> goals]
         /\ IF launched
            THEN /\ browser' = "open"
                 /\ session_result' = NoSessionResult
                 /\ s_pc' = "navigate"
            ELSE \* "except Exception as e: session_result['error'] = str(e)"
                 /\ browser' = "none"
                 /\ session_result' = [NoSessionResult EXCEPT !.error = TRUE]
                 /\ s_pc' = "finally"
    /\ UNCHANGED <<is_authenticated, errors_encountered, goal_idx, attempt, nav,
                   auth_depth>>
    /\ UNCHANGED <<rvars, qvars, cvars, pvars, nvars, wvars, xvars, fvars, yvars, zvars>>

\* _safe_navigate: goto, and on an exception the handle_error call
SafeNavigate ==
    /\ s_pc = "navigate"
    /\ \E goto_ok \in BOOLEAN :
         IF goto_ok
         THEN /\ nav' = [returned |-> TRUE, success |-> TRUE, recovered |-> FALSE,
                         goto_ok |-> TRUE, exhausted |-> FALSE]
              /\ s_pc' = "authenticate"
              /\ UNCHANGED rvars
         ELSE /\ HandleErrorEnter(ErrorContext("navigation_failed", None, 0), << >>,
                                  "safe_navigate")
              /\ nav' = NoNavigation
              /\ s_pc' = "navigate_recovering"
    /\ UNCHANGED <<session, session_result, browser, is_authenticated,
                   errors_encountered, goal_idx, attempt, auth_depth>>
    /\ UNCHANGED <<qvars, cvars, pvars, nvars, wvars, xvars, fvars, yvars, zvars>>

\* _safe_navigate after handle_error: {"success": True, "recovered": True} or
\* {"success": False}; start_scraping_session awaits the call and drops the value
SafeNavigateReturns ==
    /\ s_pc = "navigate_recovering"
    /\ HandleErrorReturns("safe_navigate")
    /\ nav' = [returned |-> TRUE, success |-> he_result.success,
               recovered |-> he_result.success, goto_ok |-> FALSE,
               exhausted |-> ~he_result.success]
    /\ s_pc' = "authenticate"
    /\ UNCHANGED <<session, session_result, browser, is_authenticated,
                   errors_encountered, goal_idx, attempt, auth_depth>>
    /\ UNCHANGED <<qvars, cvars, pvars, nvars, wvars, xvars, fvars, yvars, zvars>>

\* "if self.session.credentials and not self.is_authenticated" is false
SkipAuthentication ==
    /\ s_pc = "authenticate"
    /\ ~(session.credentials /\ ~is_authenticated)
    /\ s_pc' = "goals"
    /\ goal_idx' = 1
    /\ attempt' = 0
    /\ UNCHANGED <<session, session_result, browser, is_authenticated,
                   errors_encountered, nav, auth_depth>>
    /\ UNCHANGED <<rvars, qvars, cvars, pvars, nvars, wvars, xvars, fvars, yvars, zvars>>

\* One _handle_authentication call up to its return or its handle_error call
HandleAuthentication ==
    /\ s_pc = "authenticate"
    /\ session.credentials /\ ~is_authenticated
    /\ \E outcome \in {"success", "captcha_unsolved", "flow_failed",
                       "post_auth_failed", "raise"} :
         CASE outcome = "success" ->
                /\ session_result' =
                       [session_result EXCEPT !.authentication_status = "success"]
                /\ is_authenticated' = TRUE
                /\ s_pc' = "goals"
                /\ goal_idx' = 1
                /\ attempt' = 0
                /\ UNCHANGED rvars
           [] outcome = "raise" ->
                /\ HandleErrorEnter(ErrorContext("authentication_failed", None, 0),
                                    << >>, "authentication")
                /\ s_pc' = "authentication_recovering"
                /\ UNCHANGED <<session_result, is_authenticated, goal_idx, attempt>>
           [] OTHER ->
                \* "if not auth_result.get('success'): return session_result"
                /\ session_result' =
                       [session_result EXCEPT !.authentication_status = "failed"]
                /\ s_pc' = "finally_return"
                /\ UNCHANGED <<is_authenticated, goal_idx, attempt>>
                /\ UNCHANGED rvars
    /\ UNCHANGED <<session, browser, errors_encountered, nav, auth_depth>>
    /\ UNCHANGED <<qvars, cvars, pvars, nvars, wvars, xvars, fvars, yvars, zvars>>

\* _handle_authentication after handle_error: on success it calls itself,
\* else it returns the failure
AuthenticationRecoveryReturns ==
    /\ s_pc = "authentication_recovering"
    /\ HandleErrorReturns("authentication")
    /\ IF he_result.success
       THEN IF auth_depth < RecursionLimit
            THEN /\ auth_depth' = auth_depth + 1
                 /\ s_pc' = "authenticate"
                 /\ UNCHANGED session_result
            ELSE \* RecursionError leaves every nested call and reaches
                 \* "except Exception" of start_scraping_session
                 /\ session_result' = [session_result EXCEPT !.error = TRUE]
                 /\ s_pc' = "finally"
                 /\ UNCHANGED auth_depth
       ELSE /\ session_result' =
                   [session_result EXCEPT !.authentication_status = "failed"]
            /\ s_pc' = "finally_return"
            /\ UNCHANGED auth_depth
    /\ UNCHANGED <<session, browser, is_authenticated, errors_encountered, goal_idx,
                   attempt, nav>>
    /\ UNCHANGED <<qvars, cvars, pvars, nvars, wvars, xvars, fvars, yvars, zvars>>

\* One iteration of "while attempt < max_attempts" up to its end or its
\* handle_error call
ExecuteGoal ==
    /\ s_pc = "goals"
    /\ goal_idx <= session.goals
    /\ attempt < MaxAttempts
    /\ \E outcome \in {"captcha_blocking", "success", "raise"} \cup GoalErrors :
         CASE outcome = "captcha_blocking" ->
                /\ attempt' = attempt + 1
                /\ UNCHANGED <<s_pc, session_result, errors_encountered, goal_idx>>
                /\ UNCHANGED rvars
           [] outcome = "success" ->
                \* "return goal_result", and the session's goals_completed.append
                /\ session_result' = [session_result EXCEPT !.goals_completed = @ + 1]
                /\ goal_idx' = goal_idx + 1
                /\ attempt' = 0
                /\ UNCHANGED <<s_pc, errors_encountered>>
                /\ UNCHANGED rvars
           [] outcome = "raise" ->
                /\ errors_encountered' = errors_encountered + 1
                /\ attempt' = attempt + 1
                /\ UNCHANGED <<s_pc, session_result, goal_idx>>
                /\ UNCHANGED rvars
           [] OTHER ->
                /\ HandleErrorEnter(
                       ErrorContext(classify_goal_error(outcome), None, attempt),
                       << >>, "goal")
                /\ s_pc' = "goal_recovering"
                /\ UNCHANGED <<session_result, errors_encountered, goal_idx, attempt>>
    /\ UNCHANGED <<session, browser, is_authenticated, nav, auth_depth>>
    /\ UNCHANGED <<qvars, cvars, pvars, nvars, wvars, xvars, fvars, yvars, zvars>>

\* _execute_goal_with_recovery after handle_error: "continue" when the
\* recovery succeeded, "attempt += 1" when it did not
GoalRecoveryReturns ==
    /\ s_pc = "goal_recovering"
    /\ HandleErrorReturns("goal")
    /\ attempt' = IF he_result.success THEN attempt ELSE attempt + 1
    /\ s_pc' = "goals"
    /\ UNCHANGED <<session, session_result, browser, is_authenticated,
                   errors_encountered, goal_idx, nav, auth_depth>>
    /\ UNCHANGED <<qvars, cvars, pvars, nvars, wvars, xvars, fvars, yvars, zvars>>

\* "Goal failed after 3 attempts", and the session's goals_failed.append
GoalFailed ==
    /\ s_pc = "goals"
    /\ goal_idx <= session.goals
    /\ attempt >= MaxAttempts
    /\ session_result' = [session_result EXCEPT !.goals_failed = @ + 1]
    /\ goal_idx' = goal_idx + 1
    /\ attempt' = 0
    /\ UNCHANGED <<s_pc, session, browser, is_authenticated, errors_encountered, nav,
                   auth_depth>>
    /\ UNCHANGED <<rvars, qvars, cvars, pvars, nvars, wvars, xvars, fvars, yvars, zvars>>

\* After the goals loop: success = len(goals_completed) > 0
GoalsDone ==
    /\ s_pc = "goals"
    /\ goal_idx > session.goals
    /\ session_result' =
           [session_result EXCEPT !.success = session_result.goals_completed > 0]
    /\ s_pc' = "finally"
    /\ UNCHANGED <<session, browser, is_authenticated, errors_encountered, goal_idx,
                   attempt, nav, auth_depth>>
    /\ UNCHANGED <<rvars, qvars, cvars, pvars, nvars, wvars, xvars, fvars, yvars, zvars>>

\* The finally clause, and unless the try block returned, the session summary
CloseSession ==
    /\ s_pc \in {"finally", "finally_return"}
    /\ browser' = IF browser = "open" THEN "closed" ELSE browser
    /\ session_result' =
           IF s_pc = "finally"
           THEN [session_result EXCEPT !.total_errors = errors_encountered]
           ELSE session_result
    /\ s_pc' = "done"
    /\ UNCHANGED <<session, is_authenticated, errors_encountered, goal_idx, attempt,
                   nav, auth_depth>>
    /\ UNCHANGED <<rvars, qvars, cvars, pvars, nvars, wvars, xvars, fvars, yvars, zvars>>

InitSession == InitRecovery /\ InitSessionIdle /\ InitResolverIdle /\ InitClassifierIdle
        /\ InitPipelineIdle /\ InitNavigatorIdle /\ InitWebsiteIdle /\ InitExtractIdle /\ InitPoolIdle /\ InitRetryIdle /\ InitReviewsIdle

NextSession ==
    \/ StartSession
    \/ SafeNavigate
    \/ SafeNavigateReturns
    \/ SkipAuthentication
    \/ HandleAuthentication
    \/ AuthenticationRecoveryReturns
    \/ ExecuteGoal
    \/ GoalRecoveryReturns
    \/ GoalFailed
    \/ GoalsDone
    \/ CloseSession
    \/ GenerateRecoveryStrategies(SessionAnswers) /\ UNCHANGED <<svars, qvars, cvars, pvars, nvars, wvars, xvars, fvars, yvars, zvars>>
    \/ ExecuteRecoveryStrategy /\ UNCHANGED <<svars, qvars, cvars, pvars, nvars, wvars, xvars, fvars, yvars, zvars>>
    \/ AllStrategiesFailed /\ UNCHANGED <<svars, qvars, cvars, pvars, nvars, wvars, xvars, fvars, yvars, zvars>>

SpecSession == InitSession /\ [][NextSession]_vars

\* The event loop runs the session's coroutine for as long as it has a step
SpecSessionFair == SpecSession /\ WF_vars(NextSession)

(***************************************************************************)
(* SpecClassifier: SelectorCategorizer.categorize_selectors_with_ai (one   *)
(* batch after the other) and local_ai_selector_categorizer (all batches   *)
(* at once, spread over two model endpoints)                               *)
(***************************************************************************)
\* batch_size of categorize_selectors_with_ai and of local_ai_selector_categorizer
SequentialBatchSize == 40
ConcurrentBatchSize == 20

\* all_selectors[:200] of the rule set
FallbackLimit == 200

\* Most batches of one call, and the largest max_concurrent_per_model passed
MaxBatches == 3
MaxConcurrentPerModel == 2

ClassifierBatchSize(mode) ==
    IF mode = "sequential" THEN SequentialBatchSize ELSE ConcurrentBatchSize

\* len(batches) for range(0, total_selectors, batch_size)
ClassifierBatches(call) ==
    (call.total + ClassifierBatchSize(call.mode) - 1) \div ClassifierBatchSize(call.mode)

\* all_selectors[i:i + batch_size] of batch b, as the uuids of its candidates
BatchCandidates(call, b) ==
    LET size == ClassifierBatchSize(call.mode)
        first == (b - 1) * size + 1
        last == Min(b * size, call.total) IN
    [k \in 1..(last - first + 1) |-> first + k - 1]

\* The selector of candidate u
SelectorOf(u) ==
    << "#nav-menu", "#login-btn", "#search-box", ".product-price", ".a-row",
       "#nav-account" >>[(u % 6) + 1]

\* The keyword groups of the rule set of which selector.lower() holds a keyword
KeywordGroups(selector) ==
    CASE selector = "#nav-menu" -> {"navigation_layout"}
      [] selector = "#login-btn" -> {"authentication_account"}
      [] selector = "#search-box" -> {"search_filters"}
      [] selector = ".product-price" -> {"product_details"}
      [] selector = "#nav-account" -> {"navigation_layout", "authentication_account"}
      [] OTHER -> {}

Assignment(uuid, category, confidence) ==
    [uuid |-> uuid, category |-> category, confidence |-> confidence]

\* The if / elif chain of create_fallback_categorization for one candidate
FallbackAssignment(u) ==
    LET g == KeywordGroups(SelectorOf(u)) IN
    IF "navigation_layout" \in g THEN Assignment(u, "navigation_layout", 70)
    ELSE IF "authentication_account" \in g THEN Assignment(u, "authentication_account", 80)
    ELSE IF "search_filters" \in g THEN Assignment(u, "search_filters", 80)
    ELSE IF "product_details" \in g THEN Assignment(u, "product_details", 70)
    ELSE Assignment(u, "uncategorized_selector", 30)

\* create_fallback_categorization
create_fallback_categorization(total) ==
    [u \in 1..Min(total, FallbackLimit) |-> FallbackAssignment(u)]

\* What one request can come back with: the request raised, text that is
\* not JSON, a JSON object, a JSON array of assignments for the batch's
\* candidates, an empty JSON array, an array that names the batch's first
\* candidate a second time, an array that also names an id no candidate has
ClassifierResponses ==
    {"error", "not_json", "dict", "list", "list_empty", "list_repeat", "list_foreign"}

\* An id the model made up: no candidate carries it
ForeignId == 0

\* The array that assigns every candidate of the batch once
OnePerCandidate(call, b) ==
    [k \in 1..Len(BatchCandidates(call, b)) |->
        Assignment(BatchCandidates(call, b)[k], "product_details", 85)]

\* json.loads(response_content) for a response that parsed
BatchResult(call, b, resp) ==
    CASE resp = "list" -> OnePerCandidate(call, b)
      [] resp = "list_repeat" ->
            Append(OnePerCandidate(call, b),
                   Assignment(BatchCandidates(call, b)[1], "navigation_layout", 60))
      [] resp = "list_foreign" ->
            Append(OnePerCandidate(call, b), Assignment(ForeignId, "search_filters", 90))
      [] OTHER -> << >>

IsList(resp) == resp \in {"list", "list_empty", "list_repeat", "list_foreign"}
Parsed(resp) == resp = "dict" \/ IsList(resp)

\* A merge that keeps the last batch's result only
Extend_Overwrite(acc, batch_result) == batch_result

\* final_result.extend(batch_result)
Extend(acc, batch_result) == acc \o batch_result

\* A failure handler that throws away what was gathered so far
AfterFailedBatch_Reset(acc) == << >>

\* A batch that failed leaves final_result as it is
AfterFailedBatch(acc) == acc

\* The model endpoint of batch b: "if idx % 2 == 0" with idx = b - 1
ModelOf(b) == IF (b - 1) % 2 = 0 THEN "model1" ELSE "model2"

\* Requests in flight to one endpoint
InFlight(model) ==
    Cardinality({ b \in DOMAIN b_state : b_state[b] = "in_flight" /\ ModelOf(b) = model })

\* A semaphore that lets everybody in
SemaphoreFree_Always(model) == TRUE

\* asyncio.Semaphore(max_concurrent_per_model): a permit is left
SemaphoreFree(model) == InFlight(model) < c_call.limit

\* The candidate counts of the run: around the batch boundaries
ClassifierTotals(m) ==
    { (k - 1) * ClassifierBatchSize(m) + d :
        k \in 1..MaxBatches, d \in {0, 1, ClassifierBatchSize(m)} }

ClassifierCalls ==
    UNION { { [mode |-> m, total |-> t, limit |-> l] :
                t \in ClassifierTotals(m), l \in 1..MaxConcurrentPerModel } :
            m \in {"sequential", "concurrent"} }

\* Either classifier up to its batch loop
StartClassification ==
    /\ c_pc = "idle"
    /\ \E call \in { c \in ClassifierCalls : c.mode = "concurrent" \/ c.limit = 1 } :
         /\ c_call' = call
         /\ b_state' = [b \in 1..ClassifierBatches(call) |-> "waiting"]
         /\ b_resp' = [b \in 1..ClassifierBatches(call) |-> "none"]
         /\ IF call.total = 0
            THEN \* create_empty_categorization
                 /\ c_result' = [NoClassifierResult EXCEPT !.returned = TRUE]
                 /\ c_pc' = "returned"
                 /\ c_batch' = 0
            ELSE /\ c_pc' = call.mode
                 /\ c_batch' = 1
                 /\ UNCHANGED c_result
    /\ UNCHANGED <<completed, final_result, successful_batches, grouped_by_category>>

\* categorize_selectors_with_ai: one iteration of the batch loop
SequentialBatch ==
    /\ c_pc = "sequential"
    /\ c_batch <= ClassifierBatches(c_call)
    /\ \E resp \in ClassifierResponses :
         /\ b_resp' = [b_resp EXCEPT ![c_batch] = resp]
         /\ b_state' = [b_state EXCEPT ![c_batch] = "done"]
         /\ completed' = Append(completed, c_batch)
         /\ IF Parsed(resp)
            THEN \* "if isinstance(batch_result, list): extend", then
                 \* "successful_batches += 1" for every response that parsed
                 /\ final_result' =
                        IF IsList(resp)
                        THEN Extend(final_result, BatchResult(c_call, c_batch, resp))
                        ELSE final_result
                 /\ successful_batches' = successful_batches + 1
            ELSE \* except json.JSONDecodeError / except Exception: continue
                 /\ final_result' = AfterFailedBatch(final_result)
                 /\ UNCHANGED successful_batches
    /\ c_batch' = c_batch + 1
    /\ UNCHANGED <<c_pc, c_call, c_result, grouped_by_category>>

\* process_batch: "async with semaphore", then the request is sent
ProcessBatchStarts ==
    /\ c_pc = "concurrent"
    /\ \E b \in DOMAIN b_state :
         /\ b_state[b] = "waiting"
         \* the waiters of a semaphore are served in the order they arrived
         /\ \A a \in DOMAIN b_state :
                (a < b /\ ModelOf(a) = ModelOf(b)) => b_state[a] # "waiting"
         /\ SemaphoreFree(ModelOf(b))
         /\ b_state' = [b_state EXCEPT ![b] = "in_flight"]
    /\ UNCHANGED <<c_pc, c_call, c_batch, b_resp, completed, final_result,
                   successful_batches, c_result, grouped_by_category>>

\* process_batch: the request of one batch comes back and the task returns
\* (batch_idx, batch_result, success), releasing its permit
ProcessBatchCompletes ==
    /\ c_pc = "concurrent"
    /\ \E b \in DOMAIN b_state, resp \in ClassifierResponses :
         /\ b_state[b] = "in_flight"
         /\ b_state' = [b_state EXCEPT ![b] = "done"]
         /\ b_resp' = [b_resp EXCEPT ![b] = resp]
         /\ completed' = Append(completed, b)
    /\ UNCHANGED <<c_pc, c_call, c_batch, final_result, successful_batches, c_result,
                   grouped_by_category>>

\* "for _, batch_result, success in results": the tuples in task order
RECURSIVE Collect(_, _, _)
Collect(call, resps, n) ==
    IF n = 0 THEN << >>
    ELSE IF IsList(resps[n])
         THEN Extend(Collect(call, resps, n - 1), BatchResult(call, n, resps[n]))
         ELSE AfterFailedBatch(Collect(call, resps, n - 1))

\* local_ai_selector_categorizer after asyncio.gather
GatherReturns ==
    /\ c_pc = "concurrent"
    /\ \A b \in DOMAIN b_state : b_state[b] = "done"
    /\ final_result' = Collect(c_call, b_resp, Len(b_resp))
    /\ successful_batches' = Cardinality({ b \in DOMAIN b_resp : IsList(b_resp[b]) })
    /\ c_result' =
           IF successful_batches' = 0
           THEN [returned |-> TRUE, value |-> create_fallback_categorization(c_call.total),
                 fallback |-> TRUE]
           ELSE [returned |-> TRUE, value |-> final_result', fallback |-> FALSE]
    /\ c_pc' = "returned"
    /\ UNCHANGED <<c_call, c_batch, b_state, b_resp, completed, grouped_by_category>>

\* categorize_selectors_with_ai after the batch loop
SequentialReturns ==
    /\ c_pc = "sequential"
    /\ c_batch > ClassifierBatches(c_call)
    /\ c_result' =
           IF successful_batches = 0
           THEN [returned |-> TRUE, value |-> create_fallback_categorization(c_call.total),
                 fallback |-> TRUE]
           ELSE [returned |-> TRUE, value |-> final_result, fallback |-> FALSE]
    /\ c_pc' = "returned"
    /\ UNCHANGED <<c_call, c_batch, b_state, b_resp, completed, final_result,
                   successful_batches, grouped_by_category>>

\* The extracted candidates of the run: candidate u has uuid u
ExtractedUuids(call) == 1..call.total

\* The selector_type list a candidate was extracted into
SelectorTypeOf(u) ==
    << "id_selectors", "class_selectors", "input_selectors", "button_selectors" >>[(u % 4) + 1]

\* A lookup that finds every uuid
InLookup_Any(uuid, lookup) == TRUE

\* "if uuid in uuid_lookup"
InLookup(uuid, lookup) == uuid \in lookup

\* enriched_selector: the assignment's uuid and confidence with the
\* extracted data found under that uuid
EnrichedSelector(item) ==
    [uuid |-> item.uuid, confidence |-> item.confidence,
     selector |-> SelectorOf(item.uuid), selector_type |-> SelectorTypeOf(item.uuid)]

\* group_selectors_by_category: the categorized items whose uuid is in
\* uuid_lookup, enriched and appended to the list of their category in the
\* order of categorized_selectors; a category has a key once it has an item
group_selectors_by_category(lookup, categorized_selectors) ==
    LET matched == SelectSeq(categorized_selectors,
                             LAMBDA item : InLookup(item.uuid, lookup))
        InCategory(c) == SelectSeq(matched, LAMBDA item : item.category = c)
    IN  [c \in { matched[i].category : i \in 1..Len(matched) } |->
            [k \in 1..Len(InCategory(c)) |-> EnrichedSelector(InCategory(c)[k])]]

\* The pipeline groups what the classifier returned
GroupSelectorsByCategory ==
    /\ c_pc = "returned"
    /\ grouped_by_category' =
           group_selectors_by_category(ExtractedUuids(c_call), c_result.value)
    /\ c_pc' = "grouped"
    /\ UNCHANGED <<c_call, c_batch, b_state, b_resp, completed, final_result,
                   successful_batches, c_result>>

InitClassifier == Init

NextClassifier ==
    \/ StartClassification /\ UNCHANGED <<rvars, svars, qvars, pvars, nvars, wvars, xvars, fvars, yvars, zvars>>
    \/ SequentialBatch /\ UNCHANGED <<rvars, svars, qvars, pvars, nvars, wvars, xvars, fvars, yvars, zvars>>
    \/ SequentialReturns /\ UNCHANGED <<rvars, svars, qvars, pvars, nvars, wvars, xvars, fvars, yvars, zvars>>
    \/ ProcessBatchStarts /\ UNCHANGED <<rvars, svars, qvars, pvars, nvars, wvars, xvars, fvars, yvars, zvars>>
    \/ ProcessBatchCompletes /\ UNCHANGED <<rvars, svars, qvars, pvars, nvars, wvars, xvars, fvars, yvars, zvars>>
    \/ GatherReturns /\ UNCHANGED <<rvars, svars, qvars, pvars, nvars, wvars, xvars, fvars, yvars, zvars>>
    \/ GroupSelectorsByCategory /\ UNCHANGED <<rvars, svars, qvars, pvars, nvars, wvars, xvars, fvars, yvars, zvars>>

SpecClassifier == InitClassifier /\ [][NextClassifier]_vars

(***************************************************************************)
(* SpecPipeline: run_pipeline (src/main.py) and run_ai_pipeline_navigator  *)
(* (src/src/main.py), as far as the browser is concerned                   *)
(***************************************************************************)
\* The steps between browser.new_page() and the end of the function:
\*   "plain"   an await (or json.loads) that is in no try of its own
\*   "check"   a step whose result is tested, with "await browser.close();
\*             return" when it is empty
\*   "guarded" an await in a try of its own whose handler does
\*             "await browser.close(); return"
RunPipelineSteps ==
    << "plain", "check", "plain", "plain", "check", "plain", "plain", "check",
       "plain", "plain", "plain", "plain" >>

NavigatorSteps ==
    << "plain", "check", "check", "guarded", "check", "guarded", "check", "guarded",
       "check", "guarded", "check", "guarded", "check", "check", "guarded", "plain",
       "check", "check", "guarded", "plain", "check", "check", "guarded", "plain" >>

PipelineSteps(run) ==
    IF run = "run_pipeline" THEN RunPipelineSteps ELSE NavigatorSteps

\* run_ai_pipeline_navigator has its steps in try / except Exception / finally
HasFinally(run) == run = "run_ai_pipeline_navigator"

\* browser.close(): closing a closed browser changes nothing
BrowserClose ==
    /\ pl_browser' = "closed"
    /\ pl_close_calls' = pl_close_calls + 1

\* The function is left: the "async with async_playwright()" block exits
LeaveFunction(exit) ==
    /\ pl_pc' = "done"
    /\ pl_exit' = exit
    /\ pl_playwright' = "stopped"

\* "async with async_playwright() as p"
StartPipeline ==
    /\ pl_pc = "idle"
    /\ \E run \in {"run_pipeline", "run_ai_pipeline_navigator"} : pl_run' = run
    /\ pl_playwright' = "started"
    /\ pl_pc' = "launch"
    /\ UNCHANGED <<pl_step, pl_browser, pl_exit, pl_close_calls>>

\* "browser = await p.chromium.launch(...)"
LaunchBrowser ==
    /\ pl_pc = "launch"
    /\ \E outcome \in {"ok", "raise"} :
         IF outcome = "ok"
         THEN /\ pl_browser' = "open"
              /\ pl_pc' = "new_page"
              /\ UNCHANGED <<pl_playwright, pl_exit>>
         ELSE /\ LeaveFunction("exception")
              /\ UNCHANGED pl_browser
    /\ UNCHANGED <<pl_run, pl_step, pl_close_calls>>

\* "page = await browser.new_page()": before the try in both functions
NewPage ==
    /\ pl_pc = "new_page"
    /\ \E outcome \in {"ok", "raise"} :
         IF outcome = "ok"
         THEN /\ pl_pc' = "steps"
              /\ pl_step' = 1
              /\ UNCHANGED <<pl_playwright, pl_exit>>
         ELSE /\ LeaveFunction("exception")
              /\ UNCHANGED pl_step
    /\ UNCHANGED <<pl_run, pl_browser, pl_close_calls>>

\* One step of the pipeline goes through
PipelineStepDone ==
    /\ pl_pc = "steps"
    /\ pl_step <= Len(PipelineSteps(pl_run))
    /\ pl_step' = pl_step + 1
    /\ UNCHANGED <<pl_pc, pl_run, pl_browser, pl_playwright, pl_exit, pl_close_calls>>

\* A tested step came back empty, or a guarded step raised:
\* "await browser.close(); return"
PipelineEarlyReturn ==
    /\ pl_pc = "steps"
    /\ pl_step <= Len(PipelineSteps(pl_run))
    /\ PipelineSteps(pl_run)[pl_step] \in {"check", "guarded"}
    /\ BrowserClose
    /\ IF HasFinally(pl_run)
       THEN /\ pl_pc' = "finally"
            /\ pl_exit' = "early_return"
            /\ UNCHANGED pl_playwright
       ELSE LeaveFunction("early_return")
    /\ UNCHANGED <<pl_run, pl_step>>

\* A step that is in no try of its own raised
PipelineStepRaises ==
    /\ pl_pc = "steps"
    /\ pl_step <= Len(PipelineSteps(pl_run))
    /\ PipelineSteps(pl_run)[pl_step] = "plain"
    /\ IF HasFinally(pl_run)
       THEN \* "except Exception as e: print(...)"
            /\ pl_pc' = "finally"
            /\ pl_exit' = "exception"
            /\ UNCHANGED pl_playwright
       ELSE \* nothing catches it: it leaves run_pipeline
            LeaveFunction("exception")
    /\ UNCHANGED <<pl_run, pl_step, pl_browser, pl_close_calls>>

\* The last step is done
PipelineCompletes ==
    /\ pl_pc = "steps"
    /\ pl_step > Len(PipelineSteps(pl_run))
    /\ IF HasFinally(pl_run)
       THEN /\ pl_pc' = "finally"
            /\ pl_exit' = "normal"
            /\ UNCHANGED <<pl_playwright, pl_browser, pl_close_calls>>
       ELSE \* "await asyncio.sleep(10); await browser.close()"
            /\ BrowserClose
            /\ LeaveFunction("normal")
    /\ UNCHANGED <<pl_run, pl_step>>

\* run_ai_pipeline_navigator: "finally: await asyncio.sleep(5);
\* await browser.close()"
PipelineFinally ==
    /\ pl_pc = "finally"
    /\ BrowserClose
    /\ pl_pc' = "done"
    /\ pl_playwright' = "stopped"
    /\ UNCHANGED <<pl_run, pl_step, pl_exit>>

InitPipeline == Init

NextPipeline ==
    \/ StartPipeline /\ UNCHANGED <<rvars, svars, qvars, cvars, nvars, wvars, xvars, fvars, yvars, zvars>>
    \/ LaunchBrowser /\ UNCHANGED <<rvars, svars, qvars, cvars, nvars, wvars, xvars, fvars, yvars, zvars>>
    \/ NewPage /\ UNCHANGED <<rvars, svars, qvars, cvars, nvars, wvars, xvars, fvars, yvars, zvars>>
    \/ PipelineStepDone /\ UNCHANGED <<rvars, svars, qvars, cvars, nvars, wvars, xvars, fvars, yvars, zvars>>
    \/ PipelineEarlyReturn /\ UNCHANGED <<rvars, svars, qvars, cvars, nvars, wvars, xvars, fvars, yvars, zvars>>
    \/ PipelineStepRaises /\ UNCHANGED <<rvars, svars, qvars, cvars, nvars, wvars, xvars, fvars, yvars, zvars>>
    \/ PipelineCompletes /\ UNCHANGED <<rvars, svars, qvars, cvars, nvars, wvars, xvars, fvars, yvars, zvars>>
    \/ PipelineFinally /\ UNCHANGED <<rvars, svars, qvars, cvars, nvars, wvars, xvars, fvars, yvars, zvars>>

SpecPipeline == InitPipeline /\ [][NextPipeline]_vars

(***************************************************************************)
(* SpecNavigator: DynamicNavigator.navigate_to_goal and                    *)
(* ActionHandler.process_action, the operations their callers call         *)
(***************************************************************************)
\* Largest goal.max_steps of a call, longest strategy the model answers
MaxSteps == 3

\* navigate_to_goal calls made on one DynamicNavigator
MaxNavCalls == 2
MaxStrategySteps == 2

\* NavigationAction.action_type
ActionTypes == {"click", "fill_input", "select", "hover", "wait", "scroll"}

\* The prefixes _check_goal_completion knows
Criteria == {"url_contains", "page_type", "element_exists", "text_visible"}

\* A dict with a success flag handed to the caller
Structured(success, error) == [kind |-> "result", success |-> success, error |-> error]

\* An exception that leaves the operation
RawException == [kind |-> "exception", success |-> FALSE, error |-> "raised"]

Returns(result) ==
    /\ n_result' = result
    /\ n_pc' = "done"

\* navigate_to_goal up to its loop
NavigateToGoal ==
    /\ \/ n_pc = "idle"
       \/ n_pc = "done" /\ nav_calls > 0
    /\ nav_calls < MaxNavCalls
    /\ \E m \in 1..MaxSteps, c \in Criteria :
         nav_goal' = [max_steps |-> m, criterion |-> c]
    /\ nav_calls' = nav_calls + 1
    /\ steps_taken' = 0
    /\ n_pc' = "loop"
    /\ UNCHANGED <<navigation_history, failed_attempts, next_action, n_result>>
    /\ UNCHANGED <<ah_page, ah_current_url, ah_calls>>

\* "while steps_taken < goal.max_steps", the timeout test, and
\* "await page.content()" with analyze_page_structure, which catches what
\* its model call raises
AnalyzePage ==
    /\ n_pc = "loop"
    /\ IF steps_taken >= nav_goal.max_steps
       THEN Returns(Structured(FALSE, "Max steps exceeded"))
       ELSE \E outcome \in {"timeout", "content_raises", "analyzed"} :
              CASE outcome = "timeout" -> Returns(Structured(FALSE, "Navigation timeout"))
                [] outcome = "content_raises" -> Returns(RawException)
                [] outcome = "analyzed" -> n_pc' = "check" /\ UNCHANGED n_result
    /\ UNCHANGED <<nav_goal, steps_taken, navigation_history, failed_attempts, next_action>>
    /\ UNCHANGED <<ah_page, ah_current_url, ah_calls, nav_calls>>

\* _check_goal_completion: page.query_selector is in no try,
\* page.wait_for_selector is
CheckGoalCompletion ==
    /\ n_pc = "check"
    /\ \E outcome \in {"achieved", "not_yet"}
             \cup (IF nav_goal.criterion = "element_exists" THEN {"raises"} ELSE {}) :
         CASE outcome = "achieved" -> Returns(Structured(TRUE, "none"))
           [] outcome = "raises" -> Returns(RawException)
           [] outcome = "not_yet" -> n_pc' = "generate" /\ UNCHANGED n_result
    /\ UNCHANGED <<nav_goal, steps_taken, navigation_history, failed_attempts, next_action>>
    /\ UNCHANGED <<ah_page, ah_current_url, ah_calls, nav_calls>>

\* What generate_navigation_strategy hands back: {"steps": []} when its
\* model call failed, else whatever JSON the model answered: an object with
\* k steps, or an array
Strategies ==
    { [shape |-> "dict", steps |-> k] : k \in 0..MaxStrategySteps }
        \cup { [shape |-> "list", steps |-> 0] }

\* current_step = len(self.navigation_history): the index of the strategy step
\* _generate_next_action takes
current_step == navigation_history

\* _generate_next_action, and the "if not next_action" of the loop
GenerateNextAction ==
    /\ n_pc = "generate"
    /\ \E strategy \in Strategies, action_type \in ActionTypes :
         IF strategy.shape = "list"
         THEN \* strategy.get on a list: AttributeError, in no try
              /\ Returns(RawException)
              /\ UNCHANGED next_action
         ELSE IF current_step < strategy.steps
              THEN /\ next_action' = action_type
                   /\ n_pc' = "execute"
                   /\ UNCHANGED n_result
              ELSE /\ Returns(Structured(FALSE, "No valid action found"))
                   /\ UNCHANGED next_action
    /\ UNCHANGED <<nav_goal, steps_taken, navigation_history, failed_attempts>>
    /\ UNCHANGED <<ah_page, ah_current_url, ah_calls, nav_calls>>

\* str(e) of the exception of a page call on a selector that matches no
\* element of the page: the call waits for the element until its timeout
NoElementError == "Timeout 15000ms exceeded"

\* str(e) of any other exception of a page call
OtherPageError == "Target closed"

\* What the page call of one action can raise
PageCallErrors(action_type) ==
    IF action_type \in {"click", "fill_input", "select", "hover"}
    THEN {NoElementError, OtherPageError}
    ELSE {OtherPageError}

\* _execute_action, whose try turns every exception of the page call into
\* {"success": False, "error": str(e)}, and the rest of the loop body when
\* the action went through
ExecuteAction ==
    /\ n_pc = "execute"
    /\ \E outcome \in {"done"} \cup PageCallErrors(next_action) :
         IF outcome = "done"
         THEN /\ navigation_history' = navigation_history + 1
              /\ steps_taken' = steps_taken + 1
              /\ n_pc' = "loop"
              /\ UNCHANGED failed_attempts
         ELSE \* self.failed_attempts.append({"step", "action", "error", "url"})
              /\ failed_attempts' =
                     Append(failed_attempts,
                            [step |-> steps_taken, action |-> next_action, error |-> outcome])
              /\ n_pc' = "recover"
              /\ UNCHANGED <<navigation_history, steps_taken>>
    /\ UNCHANGED <<nav_goal, next_action, n_result>>
    /\ UNCHANGED <<ah_page, ah_current_url, ah_calls, nav_calls>>

\* _attempt_recovery, whose "await page.content()" is in no try, and the
\* rest of the loop body
AttemptRecovery ==
    /\ n_pc = "recover"
    /\ \E outcome \in {"content_raises", "retry", "wait", "no_fix"} :
         CASE outcome = "content_raises" ->
                /\ Returns(RawException)
                /\ UNCHANGED <<navigation_history, steps_taken>>
           [] outcome = "no_fix" ->
                /\ Returns(Structured(FALSE, "Recovery failed"))
                /\ UNCHANGED <<navigation_history, steps_taken>>
           [] OTHER ->
                /\ navigation_history' = navigation_history + 1
                /\ steps_taken' = steps_taken + 1
                /\ n_pc' = "loop"
                /\ UNCHANGED n_result
    /\ UNCHANGED <<nav_goal, failed_attempts, next_action>>
    /\ UNCHANGED <<ah_page, ah_current_url, ah_calls, nav_calls>>

\* Most calls made on one ActionHandler
MaxActions == 3

\* The url of the GOTO URL actions and of navigate_to_url
Url == "u"

\* The handler is between two calls
HandlerReady ==
    /\ \/ n_pc = "idle"
       \/ n_pc = "done" /\ Len(ah_calls) > 0
    /\ Len(ah_calls) < MaxActions

\* A call on the handler returns result
HandlerReturns(operation, result) ==
    /\ Returns(result)
    /\ ah_calls' = Append(ah_calls, [operation |-> operation, result |-> result])

\* process_goto_action fetches the url with requests.get and touches
\* neither self.browser nor self.page nor self.current_url
AfterGoto ==
    UNCHANGED <<ah_page, ah_current_url>>

\* navigate_to_url: start_browser and page.goto in a try; False when
\* either raised
NavigateToUrl ==
    /\ HandlerReady
    /\ \E outcome \in {"start_raises", "goto_raises", "done"} :
         CASE outcome = "start_raises" ->
                /\ HandlerReturns("navigate_to_url", Structured(FALSE, "raised"))
                /\ UNCHANGED <<ah_page, ah_current_url>>
           [] outcome = "goto_raises" ->
                /\ HandlerReturns("navigate_to_url", Structured(FALSE, "raised"))
                /\ ah_page' = "open"
                /\ UNCHANGED ah_current_url
           [] outcome = "done" ->
                /\ HandlerReturns("navigate_to_url", Structured(TRUE, "none"))
                /\ ah_page' = "open"
                /\ ah_current_url' = Url
    /\ UNCHANGED <<nav_goal, steps_taken, navigation_history, failed_attempts, next_action,
                   nav_calls>>

\* process_action: parse_action_type and the dispatch
ProcessAction ==
    /\ HandlerReady
    /\ \E action_type \in {"goto_url", "click_button", "unknown"} :
         IF action_type = "unknown"
         THEN HandlerReturns("unknown", Structured(FALSE, "Unknown action type"))
         ELSE n_pc' = action_type /\ UNCHANGED <<n_result, ah_calls>>
    /\ UNCHANGED <<nav_goal, steps_taken, navigation_history, failed_attempts, next_action,
                   nav_calls>>
    /\ UNCHANGED <<ah_page, ah_current_url>>

\* process_goto_action: the fetch and the extraction are in a try whose
\* handler returns {"success": False, "error": str(e), ...}
ProcessGotoAction ==
    /\ n_pc = "goto_url"
    /\ \E outcome \in {"no_url", "invalid_url", "raises", "done"} :
         CASE outcome = "no_url" ->
                /\ HandlerReturns("goto_url",
                       Structured(FALSE, "Could not parse URL from action string"))
                /\ UNCHANGED <<ah_page, ah_current_url>>
           [] outcome = "invalid_url" ->
                /\ HandlerReturns("goto_url", Structured(FALSE, "Invalid URL format"))
                /\ UNCHANGED <<ah_page, ah_current_url>>
           [] outcome = "raises" ->
                /\ HandlerReturns("goto_url", Structured(FALSE, "raised"))
                /\ UNCHANGED <<ah_page, ah_current_url>>
           [] outcome = "done" ->
                /\ HandlerReturns("goto_url", Structured(TRUE, "none"))
                /\ AfterGoto
    /\ UNCHANGED <<nav_goal, steps_taken, navigation_history, failed_attempts, next_action,
                   nav_calls>>

\* process_click_button_action: the button identifier is parsed, then
\* "if not self.page" rejects the action, then the click and the extraction
\* run in a try whose handler returns {"success": False, "error": str(e), ...}
ProcessClickButtonAction ==
    /\ n_pc = "click_button"
    /\ \E outcome \in {"no_button"}
            \cup (IF ah_page = "none" THEN {"no_session"}
                  ELSE {"click_failed", "raises", "done"}) :
         CASE outcome = "no_button" ->
                HandlerReturns("click_button",
                    Structured(FALSE, "Could not parse button identifier from action string"))
           [] outcome = "no_session" ->
                HandlerReturns("click_button", Structured(FALSE, "No active browser session"))
           [] outcome = "click_failed" ->
                HandlerReturns("click_button", Structured(FALSE, "click failed"))
           [] outcome = "raises" ->
                HandlerReturns("click_button", Structured(FALSE, "raised"))
           [] outcome = "done" ->
                HandlerReturns("click_button", Structured(TRUE, "none"))
    /\ UNCHANGED <<nav_goal, steps_taken, navigation_history, failed_attempts, next_action,
                   nav_calls>>
    /\ UNCHANGED <<ah_page, ah_current_url>>

\* close_browser returns None; closed tells whether "await
\* self.browser.close()" was reached in the call
CloseBrowserCall(result, closed) ==
    [operation |-> "close_browser", result |-> result, closed |-> closed]

\* What a call that returns None hands to the caller
NoneReturned == [kind |-> "none", success |-> FALSE, error |-> "none"]

\* close_browser: "if self.browser:" guards the close; browser, page and
\* current_url are reset after the close, so not when the close raised.
\* start_browser sets browser and page together: ah_page stands for both.
CloseBrowser ==
    /\ HandlerReady
    /\ \E outcome \in (IF ah_page = "none" THEN {"no_browser"} ELSE {"closed", "raises"}) :
         CASE outcome = "no_browser" ->
                /\ Returns(NoneReturned)
                /\ ah_calls' = Append(ah_calls, CloseBrowserCall(NoneReturned, FALSE))
                /\ UNCHANGED <<ah_page, ah_current_url>>
           [] outcome = "closed" ->
                /\ Returns(NoneReturned)
                /\ ah_calls' = Append(ah_calls, CloseBrowserCall(NoneReturned, TRUE))
                /\ ah_page' = "none"
                /\ ah_current_url' = "none"
           [] outcome = "raises" ->
                /\ Returns(RawException)
                /\ ah_calls' = Append(ah_calls, CloseBrowserCall(RawException, TRUE))
                /\ UNCHANGED <<ah_page, ah_current_url>>
    /\ UNCHANGED <<nav_goal, steps_taken, navigation_history, failed_attempts, next_action,
                   nav_calls>>

InitNavigator == Init

NextNavigator ==
    \/ NavigateToGoal /\ UNCHANGED <<rvars, svars, qvars, cvars, pvars, wvars, xvars, fvars, yvars, zvars>>
    \/ AnalyzePage /\ UNCHANGED <<rvars, svars, qvars, cvars, pvars, wvars, xvars, fvars, yvars, zvars>>
    \/ CheckGoalCompletion /\ UNCHANGED <<rvars, svars, qvars, cvars, pvars, wvars, xvars, fvars, yvars, zvars>>
    \/ GenerateNextAction /\ UNCHANGED <<rvars, svars, qvars, cvars, pvars, wvars, xvars, fvars, yvars, zvars>>
    \/ ExecuteAction /\ UNCHANGED <<rvars, svars, qvars, cvars, pvars, wvars, xvars, fvars, yvars, zvars>>
    \/ AttemptRecovery /\ UNCHANGED <<rvars, svars, qvars, cvars, pvars, wvars, xvars, fvars, yvars, zvars>>
    \/ NavigateToUrl /\ UNCHANGED <<rvars, svars, qvars, cvars, pvars, wvars, xvars, fvars, yvars, zvars>>
    \/ ProcessAction /\ UNCHANGED <<rvars, svars, qvars, cvars, pvars, wvars, xvars, fvars, yvars, zvars>>
    \/ ProcessGotoAction /\ UNCHANGED <<rvars, svars, qvars, cvars, pvars, wvars, xvars, fvars, yvars, zvars>>
    \/ ProcessClickButtonAction /\ UNCHANGED <<rvars, svars, qvars, cvars, pvars, wvars, xvars, fvars, yvars, zvars>>
    \/ CloseBrowser /\ UNCHANGED <<rvars, svars, qvars, cvars, pvars, wvars, xvars, fvars, yvars, zvars>>

SpecNavigator == InitNavigator /\ [][NextNavigator]_vars

(***************************************************************************)
(* SpecExtract: extract_all_selectors (the Candidate Extractor)            *)
(***************************************************************************)
\* Elements of a page
MaxElements == 2

\* extract_all_selectors calls on the same page
MaxRuns == 2

Element(tag, attrs) == [tag |-> tag, attrs |-> attrs]

\* element.get(attr)
Get(element, attr) ==
    IF attr \in DOMAIN element.attrs THEN element.attrs[attr] ELSE None

\* The elements the pages are built from
Elements ==
    { Element("input", [id |-> "q", name |-> "q", type |-> "text",
                        placeholder |-> "Search", class |-> << "btn" >>]),
      Element("input", [name |-> "q", type |-> "text", class |-> << "btn", "wide" >>]),
      Element("button", [id |-> "go", type |-> "submit", class |-> << "btn" >>]),
      Element("a", [href |-> "/x", class |-> << "btn" >>]),
      Element("a", [href |-> "/x", id |-> "q", class |-> << "btn" >>]),
      Element("form", [id |-> "f", name |-> "q", action |-> "/s"]),
      Element("div", [class |-> << "btn", "btn" >>, role |-> "button"]),
      Element("input", [type |-> "submit", role |-> "button"]) }

\* The pages: every sequence of at most MaxElements elements
HtmlDocuments == UNION { [1..n -> Elements] : n \in 0..MaxElements }

\* What distinguishes the uuid4 values of one run from those of another
Salts == {1, 2}

\* str(uuid.uuid4()): a fresh identifier for every appended entry
Uuid(salt, list, i, k) == << salt, list, i, k >>

RECURSIVE Flatten(_)
Flatten(seqs) == IF seqs = << >> THEN << >> ELSE Head(seqs) \o Flatten(Tail(seqs))

\* An append with the "not in unique" test removed
AppendUnique_All(occurrences, k, unique, acc) ==
    [j \in 1..Len(occurrences) |-> occurrences[j].entry]

\* "if value not in unique: unique.add(value); append(entry)" over the
\* occurrences of one list, from occurrence k on
RECURSIVE AppendUnique(_, _, _, _)
AppendUnique(occurrences, k, unique, acc) ==
    IF k > Len(occurrences) THEN acc
    ELSE IF occurrences[k].value \in unique
         THEN AppendUnique(occurrences, k + 1, unique, acc)
         ELSE AppendUnique(occurrences, k + 1, unique \cup {occurrences[k].value},
                           Append(acc, occurrences[k].entry))

\* The entries of one list, one element after the other
PerElement(html, entries(_)) == Flatten([i \in 1..Len(html) |-> entries(i)])

Occurrence(value, entry) == [value |-> value, entry |-> entry]

\* An entry whose selector is built from the generated identifier
Candidate_SelectorFromUuid(uuid, selector, tag) ==
    [uuid |-> uuid, selector |-> << selector, uuid >>, tag |-> tag]

\* An entry of one of the lists
Candidate(uuid, selector, tag) == [uuid |-> uuid, selector |-> selector, tag |-> tag]

\* selectors['id_selectors']
id_selectors(html, salt) ==
    LET entries(i) ==
          LET element_id == Get(html[i], "id") IN
          IF element_id # None
          THEN << Occurrence(element_id,
                    Candidate(Uuid(salt, "id", i, 1), "#" \o element_id, html[i].tag)) >>
          ELSE << >>
    IN  AppendUnique(PerElement(html, entries), 1, {}, << >>)

\* selectors['class_selectors']
class_selectors(html, salt) ==
    LET entries(i) ==
          LET classes == Get(html[i], "class") IN
          IF classes # None
          THEN [k \in 1..Len(classes) |->
                  Occurrence(classes[k],
                    Candidate(Uuid(salt, "class", i, k), "." \o classes[k], html[i].tag))]
          ELSE << >>
    IN  AppendUnique(PerElement(html, entries), 1, {}, << >>)

\* selectors['name_selectors']
name_selectors(html, salt) ==
    LET entries(i) ==
          LET name == Get(html[i], "name") IN
          IF name # None
          THEN << Occurrence(name,
                    Candidate(Uuid(salt, "name", i, 1),
                              "[name='" \o name \o "']", html[i].tag)) >>
          ELSE << >>
    IN  AppendUnique(PerElement(html, entries), 1, {}, << >>)

\* selectors['type_selectors']: appended for every form element with a type
type_selectors(html, salt) ==
    LET entries(i) ==
          LET element_type == Get(html[i], "type")
              tag_name == html[i].tag IN
          IF tag_name \in {"input", "button", "select", "textarea"} /\ element_type # None
          THEN << Candidate(Uuid(salt, "type", i, 1),
                            (IF tag_name = "input" THEN "input" ELSE tag_name)
                                \o "[type='" \o element_type \o "']",
                            tag_name) >>
          ELSE << >>
    IN  PerElement(html, entries)

important_attrs ==
    << "data-testid", "data-hook", "data-component-type", "role", "aria-label",
       "placeholder" >>

\* selectors['attribute_selectors']
attribute_selectors(html, salt) ==
    LET entries(i) ==
          Flatten([k \in 1..Len(important_attrs) |->
            LET attr == important_attrs[k]
                attr_value == Get(html[i], attr)
                attr_selector == "[" \o attr \o "='" \o attr_value \o "']" IN
            IF attr_value # None
            THEN << Occurrence(attr_selector,
                      Candidate(Uuid(salt, "attribute", i, k), attr_selector,
                                html[i].tag)) >>
            ELSE << >>])
    IN  AppendUnique(PerElement(html, entries), 1, {}, << >>)

\* The "selectors" list of an input, button or form entry: one option for
\* each of the attributes the element has
SelectorOptions(element, options) ==
    Flatten([k \in 1..Len(options) |->
        IF Get(element, options[k].attr) # None
        THEN << options[k].prefix \o Get(element, options[k].attr) \o options[k].suffix >>
        ELSE << >>])

Option(attr, prefix, suffix) == [attr |-> attr, prefix |-> prefix, suffix |-> suffix]

\* selectors['input_selectors']: one entry for every input element
input_selectors(html, salt) ==
    LET entries(i) ==
          IF html[i].tag = "input"
          THEN << Candidate(Uuid(salt, "input", i, 1),
                    SelectorOptions(html[i],
                        << Option("id", "#", ""), Option("name", "input[name='", "']"),
                           Option("type", "input[type='", "']"),
                           Option("placeholder", "input[placeholder='", "']") >>),
                    html[i].tag) >>
          ELSE << >>
    IN  PerElement(html, entries)

\* selectors['button_selectors']: one entry for every button-like element
button_selectors(html, salt) ==
    LET entries(i) ==
          LET tag_name == html[i].tag IN
          IF tag_name \in {"button", "input"}
             /\ Get(html[i], "type") \in {"button", "submit", "reset"}
          THEN << Candidate(Uuid(salt, "button", i, 1),
                    SelectorOptions(html[i],
                        << Option("id", "#", ""),
                           Option("name", tag_name \o "[name='", "']"),
                           Option("type", tag_name \o "[type='", "']") >>),
                    tag_name) >>
          ELSE << >>
    IN  PerElement(html, entries)

\* selectors['link_selectors']: one entry for every a element with an href;
\* the entry has no 'tag' key
link_selectors(html, salt) ==
    LET entries(i) ==
          LET href == Get(html[i], "href") IN
          IF html[i].tag = "a" /\ href # None
          THEN << Candidate(Uuid(salt, "link", i, 1),
                            IF Len(href) < 100 THEN "a[href='" \o href \o "']" ELSE "a",
                            None) >>
          ELSE << >>
    IN  PerElement(html, entries)

\* selectors['form_selectors']: one entry for every form element
form_selectors(html, salt) ==
    LET entries(i) ==
          IF html[i].tag = "form"
          THEN << Candidate(Uuid(salt, "form", i, 1),
                    SelectorOptions(html[i],
                        << Option("id", "#", ""), Option("name", "form[name='", "']"),
                           Option("action", "form[action='", "']") >>),
                    html[i].tag) >>
          ELSE << >>
    IN  PerElement(html, entries)

\* The lists of the result that hold entries with a uuid
SelectorLists ==
    { "id_selectors", "class_selectors", "name_selectors", "type_selectors",
      "attribute_selectors", "input_selectors", "button_selectors", "link_selectors",
      "form_selectors" }

\* The dict extract_all_selectors returns (text contents and the combined
\* patterns, which carry no uuid, are left out)
extract_all_selectors(html, salt) ==
    [ id_selectors        |-> id_selectors(html, salt),
      class_selectors     |-> class_selectors(html, salt),
      name_selectors      |-> name_selectors(html, salt),
      type_selectors      |-> type_selectors(html, salt),
      attribute_selectors |-> attribute_selectors(html, salt),
      input_selectors     |-> input_selectors(html, salt),
      button_selectors    |-> button_selectors(html, salt),
      link_selectors      |-> link_selectors(html, salt),
      form_selectors      |-> form_selectors(html, salt),
      total_elements      |-> Len(html),
      unique_tags         |-> { html[i].tag : i \in 1..Len(html) } ]

\* One extract_all_selectors(html_content) call
ExtractAllSelectors ==
    /\ Len(extractions) < MaxRuns
    /\ \E salt \in Salts :
         extractions' = Append(extractions, extract_all_selectors(html_content, salt))
    /\ UNCHANGED html_content
    /\ UNCHANGED <<rvars, svars, qvars, cvars, pvars, nvars, wvars, fvars, yvars, zvars>>

InitExtract ==
    /\ InitRecovery /\ InitSessionIdle /\ InitResolverIdle /\ InitClassifierIdle
    /\ InitPipelineIdle /\ InitNavigatorIdle /\ InitWebsiteIdle /\ InitPoolIdle
    /\ InitRetryIdle /\ InitReviewsIdle
    /\ html_content \in HtmlDocuments
    /\ extractions = << >>

NextExtract == ExtractAllSelectors

SpecExtract == InitExtract /\ [][NextExtract]_vars

(***************************************************************************)
(* SpecPool: the grouped pool of one stage of run_ai_pipeline_navigator    *)
(***************************************************************************)
\* The stages whose pool step opens the grouped file for reading
ReadStages == {"home", "login", "password", "main"}

\* The stages whose pool step extracts, categorizes and groups
BuildStages == {"search_results", "product_page", "reviews_page"}

\* extracted_data/selectors/<stage>_all_selectors.json,
\* extracted_data/categorized_selectors/<stage>_categorized.json,
\* extracted_data/grouped_selectors/<stage>_grouped.json
StageFiles == {"raw", "categorized", "grouped"}

\* 'with open(grouped_selectors_file, "r") as f: grouped_selectors = json.load(f)'
ReadGroupedPool ==
    /\ po_pc = "start"
    /\ po_stage \in ReadStages
    /\ po_source' = IF "grouped" \in po_files THEN "grouped_file" ELSE "FileNotFoundError"
    /\ po_pc' = IF "grouped" \in po_files THEN "done" ELSE "raised"
    /\ UNCHANGED <<po_stage, po_files, po_written>>
    /\ UNCHANGED <<rvars, svars, qvars, cvars, pvars, nvars, wvars, xvars, yvars, zvars>>

\* extract_all_selectors(html_content, page.url), local_ai_selector_categorizer and
\* group_selectors_by_category, each result written to its file
BuildGroupedPool ==
    /\ po_pc = "start"
    /\ po_stage \in BuildStages
    /\ po_source' = "scratch"
    /\ po_written' = {"raw", "categorized", "grouped"}
    /\ po_pc' = "done"
    /\ UNCHANGED <<po_stage, po_files>>
    /\ UNCHANGED <<rvars, svars, qvars, cvars, pvars, nvars, wvars, xvars, yvars, zvars>>

\* A stage reaches its pool step with any of its files on disk
InitPool ==
    /\ InitRecovery /\ InitSessionIdle /\ InitResolverIdle /\ InitClassifierIdle
    /\ InitPipelineIdle /\ InitNavigatorIdle /\ InitWebsiteIdle /\ InitExtractIdle
    /\ InitRetryIdle /\ InitReviewsIdle
    /\ po_pc = "start"
    /\ po_stage \in ReadStages \cup BuildStages
    /\ po_files \in SUBSET StageFiles
    /\ po_source = None
    /\ po_written = {}

NextPool ==
    \/ ReadGroupedPool
    \/ BuildGroupedPool

SpecPool == InitPool /\ [][NextPool]_vars

(***************************************************************************)
(* SpecRetry: smart_retry_with_backoff                                     *)
(***************************************************************************)
\* Largest max_retries argument
MaxSmartRetries == 3

\* initial_delay: float = 1.0
InitialDelay == 1

\* What one "await action_func(page)" can come back with: an exception, a dict
\* with success True, a dict without a 'success' key, a dict with success
\* False, or a value that is no dict (result.get raises inside the try)
ActionOutcomes == {"raises", "success_true", "no_success_key", "success_false", "not_a_dict"}

\* A test that takes every returned value for a success
Succeeded_AnyReturn(outcome) == outcome # "raises"

\* "result = await action_func(page)" did not raise and
\* result.get("success", True) is true
Succeeded(outcome) == outcome \in {"success_true", "no_success_key"}

\* initial_delay * (2 ** retry_count), the jitter left out
BackoffDelay(retry_count) == InitialDelay * Pow2(retry_count)

\* One iteration of "while retry_count < max_retries"
SmartRetryAttempt ==
    /\ sr_pc = "loop"
    /\ sr_retry_count < sr_max_retries
    /\ \E outcome \in ActionOutcomes :
         /\ sr_calls' = Append(sr_calls, outcome)
         /\ IF Succeeded(outcome)
            THEN /\ sr_result' = [returned |-> TRUE, success |-> TRUE, result |-> outcome,
                                  retry_count |-> sr_retry_count]
                 /\ sr_pc' = "returned"
                 /\ UNCHANGED <<sr_retry_count, sr_delays>>
            ELSE /\ sr_retry_count' = sr_retry_count + 1
                 /\ sr_delays' = IF sr_retry_count + 1 < sr_max_retries
                                 THEN Append(sr_delays, BackoffDelay(sr_retry_count + 1))
                                 ELSE sr_delays
                 /\ UNCHANGED <<sr_pc, sr_result>>
    /\ UNCHANGED sr_max_retries
    /\ UNCHANGED <<rvars, svars, qvars, cvars, pvars, nvars, wvars, xvars, fvars, zvars>>

\* The return after the loop
SmartRetryExhausted ==
    /\ sr_pc = "loop"
    /\ sr_retry_count >= sr_max_retries
    /\ sr_result' = [returned |-> TRUE, success |-> FALSE, result |-> None,
                     retry_count |-> sr_retry_count]
    /\ sr_pc' = "returned"
    /\ UNCHANGED <<sr_max_retries, sr_retry_count, sr_calls, sr_delays>>
    /\ UNCHANGED <<rvars, svars, qvars, cvars, pvars, nvars, wvars, xvars, fvars, zvars>>

\* smart_retry_with_backoff(page, action_func, max_retries) is called
InitRetry ==
    /\ InitRecovery /\ InitSessionIdle /\ InitResolverIdle /\ InitClassifierIdle
    /\ InitPipelineIdle /\ InitNavigatorIdle /\ InitWebsiteIdle /\ InitExtractIdle
    /\ InitPoolIdle /\ InitReviewsIdle
    /\ sr_pc = "loop"
    /\ sr_max_retries \in 0..MaxSmartRetries
    /\ sr_retry_count = 0
    /\ sr_calls = << >>
    /\ sr_delays = << >>
    /\ sr_result = NoRetryResult

NextRetry ==
    \/ SmartRetryAttempt
    \/ SmartRetryExhausted

SpecRetry == InitRetry /\ [][NextRetry]_vars

\* The event loop resumes the coroutine after every await
SpecRetryFair == SpecRetry /\ WF_vars(NextRetry)

(***************************************************************************)
(* SpecReviews: the review-extraction loop of run_ai_pipeline_navigator    *)
(***************************************************************************)
\* max_pages = 5
max_pages == 5

\* Most reviews one page yields (review_text_selectors[:10], one review each)
MaxPageReviews == 2

\* A loop test that lets one more page in
MorePages_OneTooMany(n) == n <= max_pages + 1

\* "while page_number <= max_pages"
MorePages(n) == n <= max_pages

\* The loop is left, the function goes on (break, or the loop test failed)
\* or the exception reaches the function's "except Exception"
LeaveReviewLoop(exit) ==
    /\ rv_pc' = "left"
    /\ rv_exit' = exit

\* page_reviews of a page: k records {'page': page_number, ...}
PageReviews(n, k) == [i \in 1..k |-> n]

\* The first half of an iteration: the page is read, its selectors are
\* extracted, categorized and grouped (none of it in a try of its own),
\* and the reviews found are appended to all_reviews
ExtractReviewPage ==
    /\ rv_pc = "loop"
    /\ MorePages(page_number)
    /\ rv_pages' = Append(rv_pages, page_number)
    /\ \E outcome \in {"raises", "no_review_selectors", "no_content_selectors", "extracted"} :
         CASE outcome = "raises" ->
                /\ LeaveReviewLoop("exception")
                /\ UNCHANGED all_reviews
           [] outcome \in {"no_review_selectors", "no_content_selectors"} ->
                /\ rv_pc' = "next_page"
                /\ UNCHANGED <<all_reviews, rv_exit>>
           [] outcome = "extracted" ->
                /\ \E k \in 0..MaxPageReviews :
                     all_reviews' = all_reviews \o PageReviews(page_number, k)
                /\ rv_pc' = "next_page"
                /\ UNCHANGED rv_exit
    /\ UNCHANGED <<page_number, rv_next>>
    /\ UNCHANGED <<rvars, svars, qvars, cvars, pvars, nvars, wvars, xvars, fvars, yvars>>

\* The second half of an iteration: the search for the next-page button.
\* ask_local_ai_for_specific_selectors is in no try of its own; the
\* query, the click and the wait are in a try whose handler breaks
LookForNextPage ==
    /\ rv_pc = "next_page"
    /\ \E outcome \in {"no_navigation_selectors", "ask_raises", "no_next_page_selector",
                        "button_not_found", "button_disabled", "click_raises", "clicked"} :
         /\ rv_next' = outcome
         /\ CASE outcome = "clicked" ->
                   \* "page_number += 1", then the loop test
                   /\ page_number' = page_number + 1
                   /\ rv_pc' = "loop"
                   /\ UNCHANGED rv_exit
              [] outcome = "ask_raises" ->
                   /\ LeaveReviewLoop("exception")
                   /\ UNCHANGED page_number
              [] OTHER ->
                   /\ LeaveReviewLoop("break")
                   /\ UNCHANGED page_number
    /\ UNCHANGED <<all_reviews, rv_pages>>
    /\ UNCHANGED <<rvars, svars, qvars, cvars, pvars, nvars, wvars, xvars, fvars, yvars>>

\* The loop test fails
ReviewLoopEnds ==
    /\ rv_pc = "loop"
    /\ ~MorePages(page_number)
    /\ LeaveReviewLoop("max_pages")
    /\ UNCHANGED <<page_number, all_reviews, rv_pages, rv_next>>
    /\ UNCHANGED <<rvars, svars, qvars, cvars, pvars, nvars, wvars, xvars, fvars, yvars>>

\* "all_reviews = []; page_number = 1; max_pages = 5"
InitReviews ==
    /\ InitRecovery /\ InitSessionIdle /\ InitResolverIdle /\ InitClassifierIdle
    /\ InitPipelineIdle /\ InitNavigatorIdle /\ InitWebsiteIdle /\ InitExtractIdle
    /\ InitPoolIdle /\ InitRetryIdle
    /\ rv_pc = "loop"
    /\ page_number = 1
    /\ all_reviews = << >>
    /\ rv_pages = << >>
    /\ rv_next = "none"
    /\ rv_exit = "none"

NextReviews ==
    \/ ExtractReviewPage
    \/ LookForNextPage
    \/ ReviewLoopEnds

SpecReviews == InitReviews /\ [][NextReviews]_vars

\* Every await of the loop comes back: the page calls carry timeouts
SpecReviewsFair == SpecReviews /\ WF_vars(NextReviews)

(***************************************************************************)
(* Properties of the review-extraction loop (checked under                 *)
(* SpecReviewsFair)                                                        *)
(***************************************************************************)
\* The iterations entered so far were for pages 1, 2, ... in order, at most
\* max_pages of them, and every review collected is from one of them
ReviewLoopBounded ==
    /\ Len(rv_pages) <= max_pages
    /\ \A i \in DOMAIN rv_pages : rv_pages[i] = i
    /\ \A i \in DOMAIN all_reviews : all_reviews[i] \in 1..Len(rv_pages)
    /\ rv_pc = "left" => rv_exit \in {"break", "exception", "max_pages"}

\* A step that ends an iteration either leaves the loop or has clicked the
\* next-page button and moved page_number on by one
IterationAdvancesOrLeaves ==
    rv_pc = "next_page" =>
        \/ rv_pc' = "left" /\ page_number' = page_number
        \/ rv_pc' = "loop" /\ rv_next' = "clicked" /\ page_number' = page_number + 1

\* C39: the review-extraction loop enters at most max_pages iterations,
\* one per review page, every iteration ends by leaving the loop or by a
\* successful next-page click that advances page_number, and the loop is
\* left in the end on every path.
C39_ReviewLoopTerminatesBounded ==
    /\ []ReviewLoopBounded
    /\ [][IterationAdvancesOrLeaves]_vars
    /\ <>(rv_pc = "left")

\* Five pages were processed, each left by a click on the next-page button;
\* the loop test then ended the loop
C39_Witness ==
    /\ rv_pc = "left"
    /\ rv_exit = "max_pages"
    /\ Len(rv_pages) = max_pages
    /\ page_number = max_pages + 1
    /\ rv_next = "clicked"
    /\ all_reviews # << >>

(***************************************************************************)
(* Properties of handle_error (checked under Spec)                         *)
(***************************************************************************)
Range(seq) == { seq[i] : i \in 1..Len(seq) }
Count(x, seq) == Cardinality({ i \in 1..Len(seq) : seq[i] = x })
IsPermutation(a, b) ==
    /\ Len(a) = Len(b)
    /\ \A x \in Range(a) \cup Range(b) : Count(x, a) = Count(x, b)
NonIncreasing(seq) ==
    \A i, j \in 1..Len(seq) :
        i < j => seq[i].success_probability >= seq[j].success_probability

\* C1: a handle_error call with retry_count >= max_retries returns
\* success = false, and makes no model request and executes no strategy step.
C1_RecoveryCeiling ==
    (calls > 0 /\ error_context.retry_count >= error_context.max_retries) =>
        /\ he_pc \in {"returned", "idle"}
        /\ he_result.success = FALSE
        /\ ai_calls = 0
        /\ steps_run = 0
        /\ executed = << >>

\* A call at the ceiling (retry_count = max_retries) has returned
C1_Witness ==
    /\ he_pc = "returned"
    /\ error_context.retry_count = error_context.max_retries
    /\ he_result.error = "Max retries exceeded"

\* C9: the strategies executed in one handle_error call are a prefix, of
\* length at most three, of the generated-plus-custom list sorted by
\* non-increasing success probability.
C9_TopThreeInProbabilityOrder ==
    /\ Len(executed) <= 3
    /\ Len(executed) <= Len(recovery_strategies)
    /\ \A k \in 1..Len(executed) : executed[k] = recovery_strategies[k]
    /\ he_pc \in {"execute", "returned"} /\ ai_calls > 0 =>
          /\ IsPermutation(recovery_strategies, generated)
          /\ NonIncreasing(recovery_strategies)

\* Three strategies were executed out of four, and the sort changed their order
C9_Witness ==
    /\ he_pc = "returned"
    /\ Len(executed) = 3
    /\ Len(recovery_strategies) = 4
    /\ recovery_strategies # generated
    /\ \E k \in 1..2 : executed[k].success_probability > executed[k + 1].success_probability

\* What happened in the last strategy execution, read off the steps and
\* the page's answers
RunSeen == last_run.seen
RunAllSteps == Len(last_run.outcomes) = Len(last_run.strategy.steps)
RunRaised == \E i \in 1..Len(last_run.outcomes) : last_run.outcomes[i] = "raise"
RunNoAlternative == \E i \in 1..Len(last_run.outcomes) : last_run.outcomes[i] = "notfound"
RunReachedRetry ==
    \E i \in 1..Len(last_run.outcomes) : last_run.strategy.steps[i].action = "retry_original"

\* C10 as stated: a strategy is reported as succeeded iff every step was
\* executed without an exception or a retry_original step was reached.
C10_Original ==
    RunSeen =>
        (last_run.result.success <=> ((RunAllSteps /\ ~RunRaised) \/ RunReachedRetry))

\* C10 as amended: a strategy is reported as succeeded iff a retry_original
\* step was reached, or every step was executed without an exception and no
\* find_alternative_selector step came back without a visible alternative.
C10_StrategySuccess ==
    RunSeen =>
        (last_run.result.success <=>
            (RunReachedRetry \/ (RunAllSteps /\ ~RunRaised /\ ~RunNoAlternative)))

\* A strategy whose steps all ran without exception, the last one probing
\* in vain for an alternative selector, was reported as failed
C10_Witness ==
    /\ RunSeen
    /\ RunAllSteps /\ ~RunRaised /\ RunNoAlternative
    /\ ~last_run.result.success

\* The steps the last strategy execution entered
RunSteps_Entered == 1..Len(last_run.page_calls)

\* C11 as stated: while executing a strategy the controller never clicks or
\* fills the failed target selector.
C11_Original ==
    RunSeen =>
        \A i \in RunSteps_Entered :
            ~(/\ last_run.page_calls[i].method \in {"click", "fill"}
              /\ last_run.page_calls[i].arg = error_context.target_selector)

\* C11 as amended: no step fills a selector, a retry_original step calls
\* nothing on the page, and the page is clicked by click steps only, each
\* clicking its own target (which for the static element_not_clickable
\* strategies is the failed selector).
C11_RecoveryPageCalls ==
    RunSeen =>
        \A i \in RunSteps_Entered :
            LET st == last_run.strategy.steps[i]
                call == last_run.page_calls[i] IN
            /\ call.method # "fill"
            /\ st.action = "retry_original" => call = NoPageCall
            /\ call.method = "click" <=> (st.action = "click" /\ st.target # None)
            /\ call.method = "click" => call.arg = st.target

\* The static strategy scroll_and_click ran its three steps and its click
\* step clicked the failed selector
C11_Witness ==
    /\ RunSeen
    /\ error_context.target_selector = Target
    /\ last_run.strategy.strategy_name = "scroll_and_click"
    /\ Len(last_run.page_calls) = 3
    /\ last_run.page_calls[3] = [method |-> "click", arg |-> Target]

\* C12: an exception raised by a step of a strategy stays inside
\* handle_error: the strategy is reported and counted as failed, and the
\* next strategy of the top three, if there is one, is the next to run;
\* handle_error returns failure only after all of the top three ran.
C12_StrategyExceptionContained ==
    (RunSeen /\ RunRaised) =>
        /\ ~last_run.result.success
        /\ recovery_methods[last_run.strategy.strategy_name].failures >= 1
        /\ he_pc \in {"execute", "returned", "idle"}
        /\ he_pc = "execute" => he_i = Len(executed) + 1
        /\ he_pc \in {"returned", "idle"} =>
              /\ ~he_result.success
              /\ he_result.error = "All recovery strategies failed"
              /\ executed = Top(recovery_strategies)

\* The first-ranked strategy raised at its reload step and was counted as
\* failed; the second-ranked strategy then ran and recovered
C12_Witness ==
    /\ he_pc = "returned"
    /\ Len(executed) = 2
    /\ executed[1].strategy_name = "ai_reload_retry"
    /\ recovery_methods["ai_reload_retry"].failures = 1
    /\ he_result.success
    /\ he_result.recovery_method = executed[2].strategy_name

\* The names of the static table's entry for each error kind
StaticEntryNames(kind) ==
    CASE kind = "timeout" -> << "increase_timeout_and_retry" >>
      [] kind = "selector_not_found" ->
             << "wait_and_retry_selector", "page_reload_and_retry" >>
      [] kind = "element_not_clickable" ->
             << "scroll_and_click", "remove_overlays_and_click" >>
      [] kind = "rate_limited" -> << "exponential_backoff" >>
      [] kind = "network_error" -> << "network_retry" >>
      [] OTHER -> << "generic_retry" >>

ModelCallFailed == ai_calls > 0 /\ ai_answer.failed

\* The strategies _generate_recovery_strategies returned: the list before
\* the caller's custom strategies were appended
GeneratedByModelOrTable ==
    SubSeq(generated, 1, Len(generated) - Len(custom_strategies))

\* C13: when the model call fails, the generated strategies are exactly the
\* static table's entry for the error's kind (generic_retry for kinds without
\* an entry), and handle_error goes on to execute strategies.
C13_StaticTableFallback ==
    ModelCallFailed =>
        /\ GeneratedByModelOrTable = get_default_recovery_strategies(error_context)
        /\ [i \in 1..Len(GeneratedByModelOrTable) |->
                GeneratedByModelOrTable[i].strategy_name]
              = StaticEntryNames(error_context.error_type)
        /\ he_pc \in {"execute", "returned", "idle"}
        /\ he_pc \in {"returned", "idle"} =>
              /\ Len(executed) >= 1
              /\ executed[1] = recovery_strategies[1]

\* The model call failed for an authentication_failed error, which has no
\* entry of its own, and generic_retry recovered
C13_Witness ==
    /\ ModelCallFailed
    /\ error_context.error_type = "authentication_failed"
    /\ custom_strategies = << >>
    /\ he_pc = "returned"
    /\ he_result.success
    /\ he_result.recovery_method = "generic_retry"

(***************************************************************************)
(* Properties of the static table (checked under SpecTable)                *)
(***************************************************************************)
\* min(60, 2^n * 5) written out: 5, 10, 20, 40, and 60 from n = 4 on
ExpectedWait(n) == IF n >= 4 THEN 60 ELSE << 5, 10, 20, 40 >>[n + 1]

\* The wait of the exponential_backoff strategy the table returned
BackoffWait == generated[1].steps[1].timeout

RateLimitedLookup ==
    error_context.error_type = "rate_limited" /\ generated # << >>

\* C14: for a rate-limited error with retry_count = n the wait is exactly
\* min(60, 2^n * 5) seconds, it never exceeds 60, and it does not decrease
\* when n grows.
C14_BackoffWait ==
    RateLimitedLookup =>
        /\ generated[1].strategy_name = "exponential_backoff"
        /\ generated[1].steps[1].action = "wait"
        /\ BackoffWait = ExpectedWait(error_context.retry_count)
        /\ BackoffWait <= 60
        /\ \A m \in 0..error_context.retry_count : Backoff(m) <= BackoffWait

\* A lookup with retry_count = 4, where 2^4 * 5 = 80 is cut to 60
C14_Witness ==
    /\ RateLimitedLookup
    /\ error_context.retry_count = 4
    /\ BackoffWait = 60

(***************************************************************************)
(* Properties of the Intent Resolver (checked under SpecResolver)          *)
(***************************************************************************)
\* The spellings of "none" and "null" in every letter case the model answers with
NoneSpellings == {"none", "None", "NONE", "null", "Null", "NULL"}

\* A response that is an answer: JSON object, one key, key and value
\* non-empty strings other than none / null
ValidAnswer(resp) ==
    /\ resp.kind = "dict_one"
    /\ resp.key # "" /\ resp.key \notin NoneSpellings
    /\ resp.value.type = "str"
    /\ resp.value.s # "" /\ resp.value.s \notin NoneSpellings

\* A response of the shape {"x": "none"}
NoneShaped(resp) ==
    /\ resp.kind = "dict_one"
    /\ \/ resp.key \in NoneSpellings
       \/ resp.value.type = "str" /\ resp.value.s \in NoneSpellings

Batches == DOMAIN responses
Usable(b) == b \notin pool.without_selector
ResolverReturned == r_pc \in {"resolved", "handled"} /\ pool.total > 0
NextUsable(b, c) == c > b /\ Usable(c) /\ \A d \in Batches : (b < d /\ d < c) => ~Usable(d)

\* C5: the resolver returns the answer of the first batch whose response is
\* valid, and sends no request for any batch after it.
C5_FirstMatchWins ==
    /\ \A b \in Batches : ValidAnswer(responses[b]) =>
          /\ r_pc # "resolving"
          /\ r_result = Answer(responses[b])
          /\ \A c \in Batches : c > b => requests[c] = 0
    /\ (ResolverReturned /\ ~r_result.empty) =>
          \E b \in Batches : ValidAnswer(responses[b]) /\ r_result = Answer(responses[b])

\* The first of three batches answered validly and was returned
C5_Witness ==
    /\ r_pc = "resolved"
    /\ Cardinality(Batches) = 3
    /\ ValidAnswer(responses[1]) /\ r_result = Answer(responses[1])
    /\ requests = <<1, 0, 0>>

\* C6: no returned answer has "none" or "null" (any letter case) as its key
\* or value; a response of that shape is passed over and the next batch asked.
C6_ValidityGuard ==
    /\ ~r_result.empty =>
          /\ r_result.key \notin NoneSpellings
          /\ ~(r_result.value.type = "str" /\ r_result.value.s \in NoneSpellings)
    /\ ResolverReturned =>
          \A b \in Batches : NoneShaped(responses[b]) =>
              /\ r_result # Answer(responses[b])
              /\ \A c \in Batches : NextUsable(b, c) => requests[c] = 1

\* Batch 1 answered {"sign_in_selector": "NONE"}, batch 2 was asked and its
\* answer returned
C6_Witness ==
    /\ r_pc = "resolved"
    /\ Cardinality(Batches) >= 2
    /\ responses[1] = Response("dict_one", "", "sign_in_selector", Str("NONE"))
    /\ requests[2] = 1
    /\ r_result = Answer(responses[2])

\* C7: an invalid outcome of one batch (request error, not JSON, not a
\* one-key object, value not a string) does not end resolution: no exception
\* leaves the resolver, every batch up to the first valid answer is queried,
\* and that answer is returned.
C7_BatchFailureIsolated ==
    /\ r_pc # "raised"
    /\ ResolverReturned =>
          \A b \in Batches :
              (Usable(b) /\ \A c \in Batches : c < b => ~ValidAnswer(responses[c])) =>
                  /\ requests[b] = 1
                  /\ ValidAnswer(responses[b]) => r_result = Answer(responses[b])

\* Two batches: the first answered with a value that is not a string, the
\* second validly, and the second's answer was returned
C7_Witness ==
    /\ r_pc = "resolved"
    /\ Cardinality(Batches) = 2
    /\ responses[1] = Response("dict_one", "", "sign_in_selector", JsonNumber)
    /\ requests = <<1, 1>>
    /\ ValidAnswer(responses[2]) /\ r_result = Answer(responses[2])

\* C8: when no batch yields a valid answer the resolver returns none after at
\* most one request per batch, and the caller fails the step without asking
\* the resolver again.
C8_ExhaustedReturnsNone ==
    /\ \A b \in Batches : requests[b] <= 1
    /\ (ResolverReturned /\ \A b \in Batches : ~ValidAnswer(responses[b])) =>
          r_result.empty
    /\ (r_pc = "handled" /\ pool.total > 0 /\ r_result.empty) =>
          /\ step_outcome = "resolution_failed"
          /\ resolver_calls = 1

\* Three batches were asked, none answered validly, and the step failed
C8_Witness ==
    /\ r_pc = "handled"
    /\ requests = <<1, 1, 1>>
    /\ \A b \in Batches : ~ValidAnswer(responses[b])
    /\ r_result.empty
    /\ step_outcome = "resolution_failed"

(***************************************************************************)
(* Properties of the Category Classifier (checked under SpecClassifier)    *)
(***************************************************************************)
ClassifierReturned ==
    c_pc \in {"returned", "grouped"} /\ c_result.returned /\ c_call.total > 0

\* The assignments in seq that are about candidate u
AssignmentsOf(u, seq) == { i \in 1..Len(seq) : seq[i].uuid = u }

\* The batch a candidate was sent in
BatchOfCandidate(u) == ((u - 1) \div ClassifierBatchSize(c_call.mode)) + 1

\* The batches whose response was a JSON array
ListBatches == { b \in DOMAIN b_resp : IsList(b_resp[b]) }

\* C15: when the classifier returns what the model assigned, a batch whose
\* response did not parse (or whose request raised) has no assignment in the
\* result, and every candidate of a batch that answered with its array has
\* exactly one assignment in the result, the one the model gave; the
\* classifier returns for every response, it never raises.
C15_UnparsableBatchSkipped ==
    (ClassifierReturned /\ ~c_result.fallback) =>
        \A u \in 1..c_call.total :
            LET b == BatchOfCandidate(u) IN
            /\ b_resp[b] \in {"not_json", "error"} =>
                   AssignmentsOf(u, c_result.value) = {}
            /\ b_resp[b] = "list" =>
                   /\ Cardinality(AssignmentsOf(u, c_result.value)) = 1
                   /\ Assignment(u, "product_details", 85) \in Range(c_result.value)

\* Batch 1 did not parse, batch 2 answered with its array: the result is
\* exactly batch 2's entries
C15_Witness ==
    /\ ClassifierReturned
    /\ Len(b_resp) = 2
    /\ b_resp[1] = "not_json"
    /\ b_resp[2] = "list"
    /\ c_result.value = BatchResult(c_call, 2, "list")
    /\ c_result.value # << >>

\* C16: when no batch answered with a JSON array, the classifier returns the
\* assignments of the keyword rule set, which are not empty; when at least
\* one batch answered with a JSON array, the rule set is not used.
C16_RuleSetOnTotalFailure ==
    ClassifierReturned =>
        /\ ListBatches = {} =>
               /\ c_result.fallback
               /\ c_result.value = create_fallback_categorization(c_call.total)
               /\ c_result.value # << >>
        /\ ListBatches # {} => ~c_result.fallback

\* The batches whose response parsed as JSON but is not an array
NonArrayBatches == { b \in DOMAIN b_resp : b_resp[b] = "dict" }

\* C36: both classifiers count a batch whose response parses as JSON but is
\* not an array as failed: in either mode the number of successful batches
\* is the number of batches that answered with an array, and when every
\* batch answered with a non-array JSON value the classifier returns the
\* assignments of the keyword rule set.
C36_ClassifiersAgreeOnFailedBatch ==
    ClassifierReturned =>
        /\ successful_batches = Cardinality(ListBatches)
        /\ NonArrayBatches = DOMAIN b_resp => c_result.fallback

\* C17: at every moment each endpoint has at most max_concurrent_per_model
\* requests in flight, whatever the number of batches and whatever the other
\* endpoint is doing.
C17_InFlightBounded ==
    \A model \in {"model1", "model2"} : InFlight(model) <= c_call.limit

\* One endpoint is at its limit with a batch of its own still waiting, while
\* the other endpoint has a request in flight too
C17_Witness ==
    /\ c_pc = "concurrent"
    /\ InFlight("model1") = c_call.limit
    /\ \E b \in DOMAIN b_state : ModelOf(b) = "model1" /\ b_state[b] = "waiting"
    /\ InFlight("model2") >= 1

\* How many assignments the responses of the run hold for id u
Answered(u) ==
    IF u = ForeignId
    THEN Cardinality({ b \in DOMAIN b_resp : b_resp[b] = "list_foreign" })
    ELSE LET b == BatchOfCandidate(u) IN
         CASE b_resp[b] \in {"list", "list_foreign"} -> 1
           [] b_resp[b] = "list_repeat" ->
                 IF u = BatchCandidates(c_call, b)[1] THEN 2 ELSE 1
           [] OTHER -> 0

\* The requests did not complete in the order of their batches
OutOfOrder ==
    \E i, j \in 1..Len(completed) : i < j /\ completed[i] > completed[j]

\* C18: whatever the order in which the batches completed, the concurrent
\* classifier returns the same assignments: for every id exactly as many as
\* the responses of the batches hold for it, and nothing else; no batch's
\* assignments are lost or replaced by another batch's.
C18_CompletionOrderIrrelevant ==
    (ClassifierReturned /\ c_call.mode = "concurrent" /\ ~c_result.fallback) =>
        /\ \A u \in {ForeignId} \cup (1..c_call.total) :
               Cardinality(AssignmentsOf(u, c_result.value)) = Answered(u)
        /\ \A b \in ListBatches :
               Range(BatchResult(c_call, b, b_resp[b])) \subseteq Range(c_result.value)

\* Three batches answered with their arrays, the last one first
C18_Witness ==
    /\ ClassifierReturned
    /\ c_call.mode = "concurrent"
    /\ OutOfOrder
    /\ Cardinality(ListBatches) >= 2
    /\ completed[1] = Len(b_resp)
    /\ b_resp[1] = "list"
    /\ b_resp[Len(b_resp)] = "list"
    /\ ~c_result.fallback

\* The records of the grouped pool that carry uuid u, as (category, place)
GroupedRecordsOf(u) ==
    { <<c, k>> \in UNION { {c} \X (1..Len(grouped_by_category[c])) :
                              c \in DOMAIN grouped_by_category } :
        grouped_by_category[c][k].uuid = u }

AllGroupedRecords ==
    UNION { { grouped_by_category[c][k] : k \in 1..Len(grouped_by_category[c]) } :
            c \in DOMAIN grouped_by_category }

\* C21: every record of the grouped pool carries the uuid of an extracted
\* candidate together with that candidate's selector and selector type; an
\* assignment whose uuid no extracted candidate has yields no record.
C21_NoFabricatedJoin ==
    c_pc = "grouped" =>
        \A r \in AllGroupedRecords :
            /\ r.uuid \in ExtractedUuids(c_call)
            /\ r.selector = SelectorOf(r.uuid)
            /\ r.selector_type = SelectorTypeOf(r.uuid)

\* The classifier's output holds an assignment for an id no candidate has,
\* and the grouped pool holds every other assignment and not that one
C21_Witness ==
    /\ c_pc = "grouped"
    /\ AssignmentsOf(ForeignId, c_result.value) # {}
    /\ GroupedRecordsOf(ForeignId) = {}
    /\ \A u \in ExtractedUuids(c_call) :
           Cardinality(GroupedRecordsOf(u)) = Cardinality(AssignmentsOf(u, c_result.value))
    /\ AllGroupedRecords # {}

\* C22: the classifier's output holds at most one assignment per candidate
\* id, and the grouped pool built from it at most one record per id.
C22_OneAssignmentPerCandidate ==
    ClassifierReturned =>
        /\ \A u \in {ForeignId} \cup ExtractedUuids(c_call) :
               Cardinality(AssignmentsOf(u, c_result.value)) <= 1
        /\ c_pc = "grouped" =>
               \A u \in ExtractedUuids(c_call) : Cardinality(GroupedRecordsOf(u)) <= 1

\* C23: every assignment of the classifier's output carries the id of a
\* candidate of its input; an id that only the model's response holds is
\* not in the output.
C23_NoFabricatedAssignment ==
    ClassifierReturned =>
        \A i \in 1..Len(c_result.value) : c_result.value[i].uuid \in ExtractedUuids(c_call)

(***************************************************************************)
(* Properties of the pipeline runs (checked under SpecPipeline)            *)
(***************************************************************************)
\* C19: a pipeline run that opened a browser has awaited browser.close()
\* by the time it leaves the function, however it leaves it: at the end,
\* by an early return, or by an exception of any step.
C19_BrowserClosedOnEveryExit ==
    (pl_pc = "done" /\ pl_browser # "none") => pl_browser = "closed"

\* The close_browser calls that reached browser.close()
IsClose(call) == call.operation = "close_browser"

\* No browser was started between the i-th and the j-th call on the handler
NoStartBetween(i, j) ==
    \A k \in (i + 1)..(j - 1) : ah_calls[k].operation \in {"close_browser", "click_button", "goto_url", "unknown"}

\* A close_browser call that follows a close_browser call which closed the
\* browser and returned, with no browser started in between, closes nothing
CloseBrowserIdempotent ==
    \A i, j \in DOMAIN ah_calls :
        ( /\ i < j
          /\ IsClose(ah_calls[i]) /\ ah_calls[i].closed /\ ah_calls[i].result = NoneReturned
          /\ IsClose(ah_calls[j])
          /\ NoStartBetween(i, j) ) => ~ah_calls[j].closed

NavigatorRun == pl_run = "run_ai_pipeline_navigator"

\* C38: a run of run_ai_pipeline_navigator awaits browser.close() at most
\* once, so never on a browser that is already closed, and exactly once by
\* the time it has left the function with a browser launched; and a second
\* close_browser call on an ActionHandler closes nothing.
C38_BrowserClosedExactlyOnce ==
    /\ NavigatorRun => pl_close_calls <= 1
    /\ (NavigatorRun /\ pl_pc = "done" /\ pl_browser # "none") => pl_close_calls = 1
    /\ CloseBrowserIdempotent

(***************************************************************************)
(* Properties of the caller-facing operations (checked under               *)
(* SpecNavigator)                                                          *)
(***************************************************************************)
\* C20: whatever fails inside navigate_to_goal or process_action, the
\* caller receives a structured result with a success flag; no exception
\* leaves either operation.
C20_StructuredResultAlways ==
    n_pc = "done" =>
        /\ n_result.kind = "result"
        /\ n_result.success \in BOOLEAN

\* The failures navigate_to_goal returns
NavigationFailures ==
    {"Navigation timeout", "No valid action found", "Recovery failed", "Max steps exceeded"}

\* C35: every navigate_to_goal call ends with a returned result, a success or
\* one of the four failures, and steps_taken never exceeds goal.max_steps.
C35_NavigationBoundedAndReturns ==
    nav_calls > 0 =>
        /\ steps_taken <= nav_goal.max_steps
        /\ n_pc = "done" =>
             /\ n_result.kind = "result"
             /\ ~n_result.success => n_result.error \in NavigationFailures

\* C37: the strategy step taken for the next action of a goal is the one whose
\* index is the number of actions already executed for that goal.
C37_StepIndexPerGoal ==
    (nav_calls > 0 /\ n_pc = "execute") => current_step = steps_taken

\* C24: when process_action("GOTO URL : u") has returned success, the
\* handler holds a browser page on u; a CLICK BUTTON processed next is tried
\* on that page and is not rejected for want of a browser session.
C24_ClickAfterGotoHasSession ==
    \A i \in 1..Len(ah_calls) :
        (ah_calls[i].operation = "goto_url" /\ ah_calls[i].result.success) =>
            /\ (i = Len(ah_calls) /\ n_pc = "done") =>
                   ah_page = "open" /\ ah_current_url = Url
            /\ (i < Len(ah_calls) /\ ah_calls[i + 1].operation = "click_button") =>
                   ah_calls[i + 1].result.error # "No active browser session"

\* The last action navigate_to_goal tried was a click on a selector that
\* matches no element, and the call ended on that failure
ClickOnMissingFailed ==
    /\ n_pc = "done"
    /\ n_result.kind = "result"
    /\ ~n_result.success
    /\ failed_attempts # << >>
    /\ LET last == failed_attempts[Len(failed_attempts)] IN
       /\ last.action = "click"
       /\ last.error = NoElementError
       /\ last.step = steps_taken

\* The ErrorContext _execute_goal_with_recovery builds from a goal_result
GoalErrorContext(goal_result) ==
    ErrorContext(classify_goal_error(goal_result.error), None, 0)

\* C25: when a click on a selector that matches no element has failed, the
\* ErrorContext handed to handle_error has kind selector_not_found.
C25_MissingSelectorKind ==
    ClickOnMissingFailed =>
        GoalErrorContext(n_result).error_type = "selector_not_found"

(***************************************************************************)
(* Properties of the statistics (checked under SpecWebsite and Spec)       *)
(***************************************************************************)
\* The _execute_recovery_strategy calls made for strategies called name: by
\* handle_error and by handle_specific_website_errors
ExecutionsOf(name) ==
    Cardinality({ i \in DOMAIN executed : executed[i].strategy_name = name })
    + Cardinality({ i \in DOMAIN site_executed :
                      site_executed[i].strategy.strategy_name = name })

\* Those of them that returned success
SuccessfulExecutionsOf(name) ==
    Cardinality({ i \in DOMAIN executed :
                    /\ executed[i].strategy_name = name
                    /\ i = Len(executed)
                    /\ he_result.success })
    + Cardinality({ i \in DOMAIN site_executed :
                      /\ site_executed[i].strategy.strategy_name = name
                      /\ site_executed[i].result.success })

\* C26: for every strategy name (followed while its executions are within
\* MaxCount), attempts is the number of executions of a strategy of that name,
\* successes the number of successful ones, and attempts = successes + failures.
C26_PerStrategyStatsExact ==
    \A name \in StrategyNames :
        ExecutionsOf(name) <= MaxCount =>
            /\ recovery_methods[name].attempts = ExecutionsOf(name)
            /\ recovery_methods[name].successes = SuccessfulExecutionsOf(name)
            /\ recovery_methods[name].attempts =
                   recovery_methods[name].successes + recovery_methods[name].failures

\* The website-specific executions of strategies called name
SiteExecutionsOf(name) ==
    { i \in DOMAIN site_executed : site_executed[i].strategy.strategy_name = name }

\* C32: handle_specific_website_errors executes no strategy step for a context
\* at the retry ceiling, and every strategy it executes is counted in the
\* per-strategy statistics.
C32_WebsiteObeysCeilingAndStats ==
    /\ \A i \in DOMAIN site_executed :
           CeilingReached(site_executed[i].error_context) => site_executed[i].result.ran = 0
    /\ \A name \in StrategyNames :
           recovery_methods[name].attempts >= Counted(Cardinality(SiteExecutionsOf(name)))

\* C33: a handle_error call below the retry ceiling that has returned executed
\* at least one strategy, and "All recovery strategies failed" names at least
\* one attempted strategy.
C33_AtLeastOneStrategyAttempted ==
    (he_pc = "returned" /\ ~CeilingReached(error_context)) =>
        /\ executed # << >>
        /\ he_result.error = "All recovery strategies failed" =>
               he_result.strategies_attempted # << >>

\* C30: whenever handle_error has returned, total_errors is the sum of
\* successful_recoveries and failed_recoveries.
C30_TotalsBalance ==
    he_pc = "returned" =>
        recovery_stats.total_errors =
            recovery_stats.successful_recoveries + recovery_stats.failed_recoveries

(***************************************************************************)
(* Properties of the extraction (checked under SpecExtract)                *)
(***************************************************************************)
\* The first element of the page that carries the id of an id selector
FirstWithId(html, selector) ==
    LET Carriers == { i \in 1..Len(html) :
                        Get(html[i], "id") # None /\ "#" \o Get(html[i], "id") = selector }
    IN  html[CHOOSE i \in Carriers : \A j \in Carriers : i <= j]

\* No two entries of the list carry the same selector value
NoDuplicateValue(list) ==
    \A a, b \in DOMAIN list : a # b => list[a].selector # list[b].selector

UniqueLists == { "id_selectors", "class_selectors", "name_selectors", "attribute_selectors" }

\* The entries of a list that carry the selector
WithSelector(list, selector) == { k \in DOMAIN list : list[k].selector = selector }

\* The class names of the page
ClassesOf(html) ==
    UNION { IF Get(html[i], "class") = None THEN {} ELSE Range(Get(html[i], "class")) :
            i \in 1..Len(html) }

CandidateTuple(list, c) == << list, c.selector, c.tag >>

\* The tuples of the candidates of one result
Tuples(result) ==
    UNION { { CandidateTuple(list, result[list][k]) : k \in DOMAIN result[list] } :
            list \in SelectorLists }

\* The generated identifiers of one result
Uuids(result) ==
    UNION { { result[list][k].uuid : k \in DOMAIN result[list] } : list \in SelectorLists }

FirstAvailableSource(files) ==
    IF "grouped" \in files THEN "grouped_file"
    ELSE IF {"categorized", "raw"} \subseteq files THEN "categorized_and_raw"
    ELSE IF "raw" \in files THEN "raw"
    ELSE "scratch"

\* C29: when the pool step of a stage has ended, the pool came from the first
\* available source: the grouped file, else the categorized and raw files, else
\* the raw file, else the page HTML.
C29_PoolSourceOrder ==
    po_pc \in {"done", "raised"} => po_source = FirstAvailableSource(po_files)

(***************************************************************************)
(* Properties of smart_retry_with_backoff (checked under SpecRetryFair)    *)
(***************************************************************************)
\* The calls that neither raised nor returned a failure
GoodCalls == { k \in DOMAIN sr_calls : sr_calls[k] \in {"success_true", "no_success_key"} }

SmartRetryReturnIsRight ==
    /\ Len(sr_calls) <= sr_max_retries
    /\ GoodCalls \subseteq {Len(sr_calls)}
    /\ sr_pc = "returned" =>
         IF GoodCalls # {}
         THEN /\ sr_result.success
              /\ sr_result.result = sr_calls[Len(sr_calls)]
         ELSE /\ ~sr_result.success
              /\ sr_result.retry_count = sr_max_retries
              /\ Len(sr_calls) = sr_max_retries

\* C34: smart_retry_with_backoff calls action_func at most max_retries times,
\* returns success with the result of the first good call and calls nothing
\* after it, returns failure with retry_count = max_retries when every call
\* failed, and always returns.
C34_SmartRetryBoundedAndTerminates ==
    /\ []SmartRetryReturnIsRight
    /\ <>(sr_pc = "returned")

\* A run that returned success after a call that raised and a call that
\* returned a failure
C34_Witness ==
    /\ sr_pc = "returned"
    /\ sr_result.success
    /\ Len(sr_calls) = 3
    /\ sr_calls[1] = "raises"
    /\ sr_calls[2] = "success_false"

(***************************************************************************)
(* Properties of the scraping session (checked under SpecSession and       *)
(* SpecSessionFair)                                                        *)
(***************************************************************************)
\* The apply -> recover -> re-apply cycle of goal g is running
GoalCycle(g) ==
    /\ s_pc \in {"goals", "goal_recovering"}
    /\ goal_idx = g
    /\ g <= session.goals

\* The cycle of the authentication attempt is running
AuthenticationCycle ==
    \/ s_pc = "authenticate" /\ session.credentials /\ ~is_authenticated
    \/ s_pc = "authentication_recovering"

\* C2: whatever the page and the model do, the apply -> recover -> re-apply
\* cycle of one goal, and of one authentication attempt, comes to an end
\* (success or terminal failure) after finitely many recoveries.
C2_RetryCycleEnds ==
    /\ \A g \in 1..MaxGoals : GoalCycle(g) ~> ~GoalCycle(g)
    /\ AuthenticationCycle ~> ~AuthenticationCycle

\* retry_count=attempt: the retry_count of the next ErrorContext of the goal
NextGoalRetryCount == attempt

\* The retry_count of every ErrorContext of _handle_authentication: the default
DefaultRetryCount == 0

\* C31: when a recovery of a goal's failure has returned, the retry_count of
\* the next ErrorContext of that goal is greater than the one just handled;
\* and a recovered authentication is retried with a greater retry_count.
C31_RetryCountAdvances ==
    [][ /\ (s_pc = "goal_recovering" /\ s_pc' = "goals")
            => NextGoalRetryCount' > error_context.retry_count
        /\ (s_pc = "authentication_recovering" /\ s_pc' = "authenticate")
            => DefaultRetryCount > error_context.retry_count ]_vars

\* C3: a navigation whose goto failed and whose recovery reported success is
\* reported as successful only after goto was applied again and succeeded.
C3_RecoveredActionReapplied ==
    (nav.returned /\ nav.success) => nav.goto_ok

\* The result the top-level caller receives shows that something failed
FailureVisible ==
    \/ ~session_result.success
    \/ session_result.error
    \/ session_result.total_errors > 0
    \/ session_result.goals_failed > 0

\* C4: when the recovery of the initial navigation is exhausted, the result
\* start_scraping_session returns shows the failure.
C4_TerminalFailureReported ==
    (s_pc = "done" /\ nav.exhausted) => FailureVisible

====
